---- MODULE Spec2Model ----
(***************************************************************************)
(* Ingestion (backend/services/file_processor.py, driven by                *)
(* backend/api/v1/endpoints/uploads.py) and retrieval                      *)
(* (backend/services/search.py) of the conversation store.                 *)
(*                                                                         *)
(* Text is a sequence of one-character strings, so that join, split and    *)
(* str() are computed; identifiers, roles and titles are opaque atoms.     *)
(* A nullable column is <<>> (NULL) or <<v>>.                              *)
(***************************************************************************)
EXTENDS Integers, Sequences, FiniteSets, TLC

\* ------------------------------------------------------------------ bounds
MaxCalls == 1
MaxFiles == 2
MaxConvs == 2
MaxMsgs == 2
MaxConvRows == 2
MaxMsgRows == 2

\* ------------------------------------------------------------- JSON values
Absent == [k |-> "absent"]
JNull == [k |-> "null"]
Str(s) == [k |-> "str", s |-> s]
Atom(a) == [k |-> "atom", a |-> a]
Num(n) == [k |-> "num", n |-> n]
List(items) == [k |-> "list", items |-> items]
\* a JSON object seen as message content: its "parts" and "text" members, and
\* whether it has further members
ContentDict(parts, text, other) ==
  [k |-> "cdict", parts |-> parts, text |-> text, other |-> other]
\* an ISO-8601 string for instant inst; tz is "Z", "offset" or "none"
IsoStr(inst, tz) == [k |-> "iso", inst |-> inst, tz |-> tz]

NULL == <<>>
Val(v) == <<v>>

\* Python truthiness of a value obtained with dict.get(key)
Truthy(j) ==
  CASE j.k = "absent" -> FALSE
    [] j.k = "null" -> FALSE
    [] j.k = "str" -> j.s # <<>>
    [] j.k = "atom" -> j.a # ""
    [] j.k = "num" -> j.n # 0
    [] j.k = "list" -> j.items # <<>>
    [] j.k = "cdict" -> j.parts.k # "absent" \/ j.text.k # "absent" \/ j.other
    [] j.k = "iso" -> TRUE
    [] j.k = "badstr" -> TRUE

Digits == <<"0", "1", "2", "3", "4", "5", "6", "7", "8", "9">>

\* str(x) of a scalar
PyStr(j) ==
  CASE j.k = "str" -> j.s
    [] j.k = "num" -> <<Digits[j.n + 1]>>
    [] j.k = "null" -> <<"N", "o", "n", "e">>

RECURSIVE Concat(_)
\* "".join(strs)
Concat(strs) == IF strs = <<>> THEN <<>> ELSE strs[1] \o Concat(Tail(strs))

RECURSIVE Join(_)
\* " ".join(strs)
Join(strs) ==
  IF strs = <<>> THEN <<>>
  ELSE IF Len(strs) = 1 THEN strs[1]
  ELSE strs[1] \o <<" ">> \o Join(Tail(strs))

RECURSIVE CountWords(_, _)
\* number of maximal runs of non-blank characters of s; inWord: the previous
\* character was non-blank
CountWords(s, inWord) ==
  IF s = <<>> THEN 0
  ELSE IF s[1] = " " THEN CountWords(Tail(s), FALSE)
  ELSE (IF inWord THEN 0 ELSE 1) + CountWords(Tail(s), TRUE)

\* len(content.split())
WordCount(s) == CountWords(s, FALSE)

\* the characters of a string as one-character strings (iterating a str)
Chars(s) == [i \in 1..Len(s) |-> <<s[i]>>]

\* message dict: msg_data.get("content") or msg_data.get("text") or
\* msg_data.get("parts", "")
RawContent(m) ==
  IF Truthy(m.content) THEN m.content
  ELSE IF Truthy(m.text) THEN m.text
  ELSE IF m.parts.k = "absent" THEN Str(<<>>)
  ELSE m.parts

Extracted(s) == [ok |-> TRUE, s |-> s]
TypeError == [ok |-> FALSE, exc |-> "TypeError"]

\* " ".join(str(x) for x in v): v must be iterable
JoinStrOf(v) ==
  CASE v.k = "list" -> Extracted(Join([i \in 1..Len(v.items) |-> PyStr(v.items[i])]))
    [] v.k = "str" -> Extracted(Join(Chars(v.s)))
    [] OTHER -> TypeError

\* FileProcessor._extract_message_content
ExtractMessageContent(m) ==
  LET content == RawContent(m)
  IN IF content.k = "cdict"
     THEN IF content.parts.k # "absent" THEN JoinStrOf(content.parts)
          ELSE IF content.text.k = "absent" THEN Extracted(<<>>)
          ELSE Extracted(PyStr(content.text))
     ELSE IF content.k = "list" THEN JoinStrOf(content)
     ELSE Extracted(PyStr(content))

\* ------------------------------------------------------------- timestamps
\* a datetime: the instant and whether it carries a UTC offset (aware)
Naive(inst) == [inst |-> inst, aware |-> FALSE]
Aware(inst) == [inst |-> inst, aware |-> TRUE]

\* msg_data.get("create_time") or msg_data.get("timestamp")
RawCreateTime(m) == IF Truthy(m.create_time) THEN m.create_time ELSE m.timestamp

\* lines 237-248: datetime.utcfromtimestamp for a number, datetime.fromisoformat
\* (after replacing "Z" by "+00:00") for a string; a failed parse gives None
ParseTimestamp(m) ==
  LET ct == RawCreateTime(m)
  IN CASE ct.k = "num" -> Val(Naive(ct.n))
       [] ct.k = "iso" -> Val(IF ct.tz = "none" THEN Naive(ct.inst) ELSE Aware(ct.inst))
       [] OTHER -> NULL

\* a < b on datetimes raises TypeError when exactly one of them is aware
Comparable(a, b) == a.aware = b.aware

\* ---------------------------------------------------------------- messages
\* a message object of an export
Msg(content) ==
  [k |-> "msg", content |-> content, text |-> Absent, parts |-> Absent,
   role |-> Absent, author |-> Absent, create_time |-> Absent,
   timestamp |-> Absent, id |-> Absent]
Author(role) == [k |-> "author", role |-> role]

IsDict(x) == x.k \in {"msg", "conv"}

\* lines 224-228: the role of a chatgpt message, "" when missing
RoleOf(m) ==
  LET r == IF m.author.k = "author" THEN m.author.role ELSE m.role
  IN IF Truthy(r) THEN r.a ELSE ""

\* ----------------------------------------------------------- conversations
\* a conversation object of an export, without its message objects: messages
\* is Absent, [k |-> "notlist"] or [k |-> "list", n |-> length]; mapping is
\* Absent, [k |-> "notdict"] or [k |-> "dict", nodes |-> <<node kinds>>], a node
\* being "nondict", "nomsg" (no message object) or "msg"
Conv(id, title, messages, mapping) ==
  [k |-> "conv", id |-> id, conversation_id |-> Absent, title |-> title,
   messages |-> messages, mapping |-> mapping]
MsgList(n) == [k |-> "list", n |-> n]
Mapping(nodes) == [k |-> "dict", nodes |-> nodes]

\* line 166: conv_data.get("id") or conv_data.get("conversation_id")
ConvExternalId(h) == IF Truthy(h.id) THEN h.id ELSE h.conversation_id

\* str(conv_external_id)
ExternalIdStr(x) == IF x.k = "atom" THEN x.a ELSE "None"

\* line 167: conv_data.get("title", "") or "Untitled"
TitleOf(h) == IF Truthy(h.title) THEN h.title.a ELSE "Untitled"

\* one message per node of the mapping, whether it carries one or not
AllNodes(mapping) == Len(mapping.nodes)

\* number of message objects the mapping yields (lines 203-209)
MappingMessages(mapping) ==
  Cardinality({i \in 1..Len(mapping.nodes) : mapping.nodes[i] = "msg"})

\* lines 200-210: how many message objects the loop of line 220 runs over,
\* 0 when the conversation is skipped at line 211
MessageCount(h) ==
  IF h.messages.k = "list" /\ h.messages.n > 0 THEN h.messages.n
  ELSE IF h.mapping.k = "dict" THEN MappingMessages(h.mapping)
  ELSE 0

\* whether the messages come from the mapping
FromMapping(h) == ~(h.messages.k = "list" /\ h.messages.n > 0) /\ h.mapping.k = "dict"

\* ------------------------------------------------------------------- state
VARIABLES
  convs,      \* the session's view of table conversations: a sequence of rows, a row's id its index
  msgs,       \* the session's view of table messages
  committed,  \* [convs, msgs] as of the last commit
  upload,     \* the FileUpload record of the current request, NULL or <<record>>
  calls,      \* number of calls of process_*_export so far
  pc,         \* "idle", "export", "file", "conv", "done", "returned"
  job,        \* the arguments of the current call
  stats,      \* the stats object of the current call
  fi,         \* number of files of the job handled so far
  file,       \* the JSON file being processed
  ci,         \* number of conversation objects of the file handled so far
  conv,       \* the locals of the conversation loop body
  mi,         \* number of message objects of the conversation handled so far
  hdr,        \* history: the conversation object last begun
  seen,       \* history: the message objects of that conversation handled so far
  pre,        \* history: convs, the number of rows of msgs, and stats when that conversation was begun
  flog,       \* history: per file of the job, its name, its number of conversation objects,
              \* how many of them were handled to the end, and where it failed ("no", "open", "conv")
  last,       \* history: the step taken last
  export,     \* the export a re-ingestion replays: [user, convs], NULL when inputs are free
  q,          \* the search request
  fts,        \* what full_text_search returned
  vec,        \* what vector_search returned
  results,    \* the results of the search
  spc,        \* "idle", "responded" (the endpoint), "combined" (_combine_search_results alone)
  sess,       \* the sessions of concurrent uploads, each with its place in the conversation loop
  arg,        \* the argument of a function applied alone, NULL when there is none
  ret,        \* what that function returned, NULL before it has
  users,      \* the users table: which of the rows "sample" (sample@example.com) and
              \* "default" (id ...0001) it holds
  who,        \* current_user of the upload and of the search endpoints, "" before
              \* their get_current_user has run
  slog        \* the usage log of the search: the outcome of log_search and its rows

ingestVars == <<convs, msgs, committed, upload, calls, pc, job, stats, fi, file,
                ci, conv, mi, hdr, seen, pre, flog, last>>

searchVars == <<q, fts, vec, results, spc>>

auxVars == <<sess, arg, ret, users, who, slog>>

\* the sessions of the concurrent uploads
Sessions == {1, 2}
\* a session: todo the conversation objects still to go through, found the
\* rows the lookup returned, pending the conversation rows it has flushed and
\* not yet committed, updates the message_count it has written to committed
\* rows, msgs the message rows it has added
NoSession == [pc |-> "idle", user |-> "", todo |-> <<>>, found |-> {},
              pending |-> <<>>, updates |-> <<>>, msgs |-> <<>>]
NoOne == [upload |-> "", search |-> ""]
NoLog == [outcome |-> "none", rows |-> 0]
EnvIdle == users = {} /\ who = NoOne /\ slog = NoLog
AuxIdle ==
  /\ sess = [p \in Sessions |-> NoSession] /\ arg = NULL /\ ret = NULL
  /\ EnvIdle

NoJob == [user |-> "", is_claude |-> FALSE, form |-> "json", via |-> "direct",
          db |-> FALSE, nfiles |-> 0, zip_ok |-> TRUE]
NoStats == [conversations_processed |-> 0, messages_processed |-> 0,
            files_processed |-> <<>>, errors |-> <<>>]
NoFile == [k |-> "none", n |-> 0, name |-> 0]
NoConv == [row |-> 0, n |-> 0, first_dt |-> NULL, last_dt |-> NULL,
           conv_message_count |-> 0, conv_word_count |-> 0]
NoPre == [convs |-> <<>>, msgs |-> 0, stats |-> NoStats]

IngestInit ==
  /\ convs = <<>> /\ msgs = <<>>
  /\ committed = [convs |-> <<>>, msgs |-> <<>>]
  /\ upload = NULL
  /\ calls = 0
  /\ pc = "idle"
  /\ job = NoJob
  /\ stats = NoStats
  /\ fi = 0 /\ file = NoFile /\ ci = 0 /\ conv = NoConv /\ mi = 0
  /\ hdr = Absent /\ seen = <<>> /\ pre = NoPre /\ flog = <<>>
  /\ last = "init"

\* ------------------------------------------------------------- exceptions
\* a directory loop without the try of line 125
UnguardedLoop(form) == FALSE

\* _process_directory_export wraps each file in try/except (lines 124-129);
\* a single .json file is processed by process_*_export directly (line 43)
HandlesPerFile(form) == form \in {"zip", "dir"}

FileError(name, exc) == [k |-> "file", name |-> name, exc |-> exc]
ProcessingError(exc) == [k |-> "processing", exc |-> exc]

MarkFailed(log, at) == [log EXCEPT ![Len(log)].failed = at]
MarkHandled(log) == [log EXCEPT ![Len(log)].handled = @ + 1]

\* an exception raised while file `name` is processed (at = "open": reading
\* it, "conv": inside a conversation), st the stats and log the history so
\* far: caught at line 128 (next file) or at line 48 (return)
RaiseInFile(name, exc, st, log, at) ==
  /\ flog' = MarkFailed(log, at)
  /\ IF HandlesPerFile(job.form)
     THEN /\ stats' = [st EXCEPT !.errors = Append(@, FileError(name, exc))]
          /\ fi' = fi + 1
          /\ pc' = "export"
     ELSE /\ stats' = [st EXCEPT !.errors = Append(@, ProcessingError(exc))]
          /\ fi' = fi
          /\ pc' = "done"

\* --------------------------------------------------- process_*_export, files
\* upload_*_export lines 65-99 (via = "endpoint": its own session, the upload
\* record committed with status "processing") or a direct call of
\* process_chatgpt_export / process_claude_export (lines 26-46, 54-74)
Call(j) ==
  /\ pc \in {"idle", "returned"}
  /\ calls' = calls + 1
  /\ job' = j
  /\ IF j.via = "endpoint"
     THEN /\ upload' = Val([status |-> "processing", processed_conversations |-> 0,
                            processed_messages |-> 0, completed |-> FALSE])
          /\ convs' = committed.convs
          /\ msgs' = committed.msgs
     ELSE UNCHANGED <<upload, convs, msgs>>
  /\ UNCHANGED committed
  /\ fi' = 0 /\ file' = NoFile /\ ci' = 0 /\ conv' = NoConv /\ mi' = 0
  /\ hdr' = Absent /\ seen' = <<>> /\ pre' = NoPre /\ flog' = <<>>
  /\ IF j.form = "zip" /\ ~j.zip_ok
     THEN \* zipfile.BadZipFile at line 95, caught at line 48
          /\ stats' = [NoStats EXCEPT !.errors = <<ProcessingError("BadZipFile")>>]
          /\ pc' = "done"
          /\ last' = "badzip"
     ELSE /\ stats' = NoStats
          /\ pc' = "export"
          /\ last' = "call"
  /\ UNCHANGED <<export, searchVars, auxVars>>

\* the value json.load returned is a list, or a dict whose "conversations" is
\* a list: lines 157-160 (and 281-284)
Iterable(f) == f.k \in {"list", "dict"}

\* _process_json_file lines 140-150 and the head of _process_*_json: f is the
\* file's top-level shape: "invalid" (not JSON), "list", "dict" (conversations
\* is a list), "nokey" (a dict without conversations), "scalar", or "badconvs"
\* (conversations is null or a number, which the for statement cannot iterate)
OpenFile(f) ==
  /\ pc = "export"
  /\ fi < job.nfiles
  /\ file' = f
  /\ ci' = 0
  /\ LET log == Append(flog, [name |-> f.name, n |-> f.n, handled |-> 0, failed |-> "no"])
     IN IF f.k \in {"invalid", "badconvs"}
        THEN /\ RaiseInFile(f.name, IF f.k = "invalid" THEN "ValueError" ELSE "TypeError",
                            stats, log, "open")
             /\ last' = "raise_open"
        ELSE /\ flog' = log
             /\ pc' = "file"
             /\ last' = "open"
             /\ UNCHANGED <<stats, fi>>
  /\ UNCHANGED <<convs, msgs, committed, upload, calls, job, conv, mi, hdr, seen, pre>>
  /\ UNCHANGED <<export, searchVars, auxVars>>

\* the number of conversation objects the loop of line 162 runs over
ConversationsIn(f) == IF Iterable(f) THEN f.n ELSE 0

\* the loop over the file's conversations has ended: line 127 for a directory
\* or an archive; a single .json file is not added to files_processed
CloseFile ==
  /\ pc = "file"
  /\ ci = ConversationsIn(file)
  /\ IF HandlesPerFile(job.form)
     THEN /\ stats' = [stats EXCEPT !.files_processed = Append(@, file.name)]
          /\ fi' = fi + 1
          /\ pc' = "export"
     ELSE /\ pc' = "done"
          /\ UNCHANGED <<stats, fi>>
  /\ last' = "close"
  /\ UNCHANGED <<convs, msgs, committed, upload, calls, job, file, ci, conv, mi,
                 hdr, seen, pre, flog>>
  /\ UNCHANGED <<export, searchVars, auxVars>>

\* the loop of line 124 has ended
EndExport ==
  /\ pc = "export"
  /\ fi = job.nfiles
  /\ pc' = "done"
  /\ last' = "endexport"
  /\ UNCHANGED <<convs, msgs, committed, upload, calls, job, stats, fi, file, ci,
                 conv, mi, hdr, seen, pre, flog>>
  /\ UNCHANGED <<export, searchVars, auxVars>>

\* process_*_export returns stats (line 52); upload_*_export lines 101-110
\* set the upload record and commit the session
Return ==
  /\ pc = "done"
  /\ pc' = "returned"
  /\ IF job.via = "endpoint"
     THEN /\ upload' = Val([status |-> IF stats.errors = <<>> THEN "completed" ELSE "failed",
                            processed_conversations |-> stats.conversations_processed,
                            processed_messages |-> stats.messages_processed,
                            completed |-> TRUE])
          /\ committed' = [convs |-> convs, msgs |-> msgs]
     ELSE UNCHANGED <<upload, committed>>
  /\ last' = "return"
  /\ UNCHANGED <<convs, msgs, calls, job, stats, fi, file, ci, conv, mi, hdr, seen,
                 pre, flog>>
  /\ UNCHANGED <<export, searchVars, auxVars>>

\* ------------------------------------------------- _process_chatgpt_json
\* the first of the rows the select matches, as .first() would give it
FirstFound(rows, user, ext) ==
  LET S == {i \in 1..Len(rows) : /\ rows[i].user_id = user
                                 /\ rows[i].external_id = Val(ext)
                                 /\ rows[i].provider = "chatgpt"}
  IN {i \in S : \A j \in S : i <= j}

\* lines 172-179: the rows the select returns
Lookup(rows, user, ext) ==
  {i \in 1..Len(rows) : /\ rows[i].user_id = user
                        /\ rows[i].external_id = Val(ext)
                        /\ rows[i].provider = "chatgpt"}

\* lines 182-191
NewConversation(user, ext, title) ==
  [user_id |-> user,
   external_id |-> IF Truthy(ext) THEN Val(ExternalIdStr(ext)) ELSE NULL,
   title |-> title, provider |-> "chatgpt", project_id |-> NULL,
   message_count |-> 0, word_count |-> 0,
   first_message_date |-> NULL, last_message_date |-> NULL]

\* lines 196-197: title is never empty here (line 167)
UpdateTitle(row, title) ==
  IF title # "" /\ row.title # title THEN [row EXCEPT !.title = title] ELSE row

\* lines 162-217: one conversation object h of the file, up to the loop over
\* its messages
BeginConversation(h) ==
  /\ pc = "file"
  /\ ~job.is_claude
  /\ ci < ConversationsIn(file)
  /\ hdr' = h
  /\ seen' = <<>>
  /\ pre' = [convs |-> convs, msgs |-> Len(msgs), stats |-> stats]
  /\ mi' = 0
  /\ IF ~IsDict(h)
     THEN /\ ci' = ci + 1
          /\ flog' = MarkHandled(flog)
          /\ conv' = NoConv
          /\ last' = "skip_nondict"
          /\ UNCHANGED <<convs, stats, pc, fi>>
     ELSE LET ext == ConvExternalId(h)
              title == TitleOf(h)
              found == IF job.db THEN Lookup(convs, job.user, ExternalIdStr(ext)) ELSE {}
          IN IF Cardinality(found) > 1
             THEN \* scalar_one_or_none raises MultipleResultsFound
                  /\ RaiseInFile(file.name, "MultipleResultsFound", stats, flog, "conv")
                  /\ ci' = ci
                  /\ conv' = NoConv
                  /\ last' = "raise_lookup"
                  /\ UNCHANGED convs
             ELSE LET row == IF ~job.db THEN 0
                             ELSE IF found = {} THEN Len(convs) + 1
                             ELSE CHOOSE i \in found : TRUE
                  IN /\ (job.db /\ found = {}) => Len(convs) < MaxConvRows
                     /\ convs' = IF ~job.db THEN convs
                                 ELSE IF found = {}
                                 THEN Append(convs, NewConversation(job.user, ext, title))
                                 ELSE [convs EXCEPT ![row] = UpdateTitle(@, title)]
                     /\ IF MessageCount(h) = 0
                        THEN \* line 211
                             /\ ci' = ci + 1
                             /\ flog' = MarkHandled(flog)
                             /\ conv' = NoConv
                             /\ last' = "skip_nomsgs"
                             /\ UNCHANGED <<stats, pc, fi>>
                        ELSE /\ stats' = [stats EXCEPT !.conversations_processed = @ + 1]
                             /\ conv' = [NoConv EXCEPT !.row = row, !.n = MessageCount(h)]
                             /\ pc' = "conv"
                             /\ last' = "begin"
                             /\ UNCHANGED <<ci, flog, fi>>
  /\ UNCHANGED <<msgs, committed, upload, calls, job, file>>
  /\ UNCHANGED <<export, searchVars, auxVars>>

\* line 231: if content
Skipped(content) == content = <<>>

\* lines 256-265
NewMessage(user, row, m, content, ts) ==
  [user_id |-> user, conversation_id |-> row,
   external_id |-> IF Truthy(m.id) THEN Val(m.id.a) ELSE NULL,
   role |-> IF RoleOf(m) # "" THEN RoleOf(m) ELSE "assistant",
   content |-> content, word_count |-> WordCount(content), timestamp_value |-> ts]

\* lines 250-254
FoldFirst(first_dt, ts) ==
  IF first_dt = NULL \/ ts[1].inst < first_dt[1].inst THEN ts ELSE first_dt
FoldLast(last_dt, ts) ==
  IF last_dt = NULL \/ ts[1].inst > last_dt[1].inst THEN ts ELSE last_dt

\* lines 220-266: one message object m of the conversation
ProcessMessage(m) ==
  /\ pc = "conv"
  /\ ~job.is_claude
  /\ mi < conv.n
  /\ FromMapping(hdr) => IsDict(m)
  /\ seen' = Append(seen, m)
  /\ IF ~IsDict(m)
     THEN /\ mi' = mi + 1
          /\ last' = "msg_nondict"
          /\ UNCHANGED <<msgs, stats, conv, pc, fi, flog>>
     ELSE LET x == ExtractMessageContent(m)
          IN IF ~x.ok
             THEN /\ RaiseInFile(file.name, x.exc, stats, flog, "conv")
                  /\ last' = "raise_content"
                  /\ UNCHANGED <<msgs, conv, mi>>
             ELSE IF Skipped(x.s)
             THEN /\ mi' = mi + 1
                  /\ last' = "msg_empty"
                  /\ UNCHANGED <<msgs, stats, conv, pc, fi, flog>>
             ELSE LET st == [stats EXCEPT !.messages_processed = @ + 1]
                      c1 == [conv EXCEPT !.conv_message_count = @ + 1,
                                         !.conv_word_count = @ + WordCount(x.s)]
                      ts == ParseTimestamp(m)
                  IN IF ~job.db
                     THEN /\ stats' = st
                          /\ conv' = c1
                          /\ mi' = mi + 1
                          /\ last' = "msg"
                          /\ UNCHANGED <<msgs, pc, fi, flog>>
                     ELSE IF ts # NULL /\ conv.first_dt # NULL
                             /\ ~Comparable(ts[1], conv.first_dt[1])
                     THEN \* ts_value < first_dt raises TypeError (line 251)
                          /\ RaiseInFile(file.name, "TypeError", st, flog, "conv")
                          /\ conv' = c1
                          /\ last' = "raise_compare"
                          /\ UNCHANGED <<msgs, mi>>
                     ELSE /\ Len(msgs) < MaxMsgRows
                          /\ stats' = st
                          /\ conv' = IF ts = NULL THEN c1
                                     ELSE [c1 EXCEPT !.first_dt = FoldFirst(@, ts),
                                                     !.last_dt = FoldLast(@, ts)]
                          /\ msgs' = Append(msgs, NewMessage(job.user, conv.row, m, x.s, ts))
                          /\ mi' = mi + 1
                          /\ last' = "msg"
                          /\ UNCHANGED <<pc, fi, flog>>
  /\ UNCHANGED <<convs, committed, upload, calls, job, file, ci, hdr, pre>>
  /\ UNCHANGED <<export, searchVars, auxVars>>

\* the right operand whatever the left one is
Second(a, b) == b

\* a or b on nullable values
OrElse(a, b) == IF a # NULL THEN a ELSE b

\* the aggregates of one pass assigned to the row instead of added to it
ReplaceAggregates(row, c) ==
  [row EXCEPT !.message_count = c.conv_message_count,
              !.word_count = c.conv_word_count,
              !.first_message_date = OrElse(@, c.first_dt),
              !.last_message_date = OrElse(c.last_dt, @)]

\* lines 270-273
UpdateAggregates(row, c) ==
  [row EXCEPT !.message_count = @ + c.conv_message_count,
              !.word_count = @ + c.conv_word_count,
              !.first_message_date = OrElse(@, c.first_dt),
              !.last_message_date = OrElse(c.last_dt, @)]

\* the loop of line 220 (or 301) has ended: lines 268-274
EndConversation ==
  /\ pc = "conv"
  /\ mi = conv.n
  /\ convs' = IF job.db /\ ~job.is_claude
              THEN [convs EXCEPT ![conv.row] = UpdateAggregates(@, conv)]
              ELSE convs
  /\ ci' = ci + 1
  /\ flog' = MarkHandled(flog)
  /\ pc' = "file"
  /\ last' = "end"
  /\ UNCHANGED <<msgs, committed, upload, calls, job, stats, fi, file, conv, mi, hdr,
                 seen, pre>>
  /\ UNCHANGED <<export, searchVars, auxVars>>

\* -------------------------------------------------- _process_claude_json
\* lines 286-299: one conversation object; a missing messages member is []
ClaudeBeginConversation(h) ==
  /\ pc = "file"
  /\ job.is_claude
  /\ ci < ConversationsIn(file)
  /\ hdr' = h
  /\ seen' = <<>>
  /\ pre' = [convs |-> convs, msgs |-> Len(msgs), stats |-> stats]
  /\ mi' = 0
  /\ IF ~IsDict(h) \/ h.messages.k = "notlist"
     THEN /\ ci' = ci + 1
          /\ flog' = MarkHandled(flog)
          /\ conv' = NoConv
          /\ last' = "skip_claude"
          /\ UNCHANGED <<stats, pc>>
     ELSE /\ stats' = [stats EXCEPT !.conversations_processed = @ + 1]
          /\ conv' = [NoConv EXCEPT !.n = IF h.messages.k = "list" THEN h.messages.n ELSE 0]
          /\ pc' = "conv"
          /\ last' = "begin"
          /\ UNCHANGED <<ci, flog>>
  /\ UNCHANGED <<convs, msgs, committed, upload, calls, job, fi, file>>
  /\ UNCHANGED <<export, searchVars, auxVars>>

\* lines 301-310: content = msg_data.get("text", "") or msg_data.get("content", "")
ClaudeProcessMessage(m) ==
  /\ pc = "conv"
  /\ job.is_claude
  /\ mi < conv.n
  /\ seen' = Append(seen, m)
  /\ mi' = mi + 1
  /\ IF IsDict(m) /\ (Truthy(m.text) \/ Truthy(m.content))
     THEN /\ stats' = [stats EXCEPT !.messages_processed = @ + 1]
          /\ last' = "msg"
     ELSE /\ last' = "msg_empty"
          /\ UNCHANGED stats
  /\ UNCHANGED <<convs, msgs, committed, upload, calls, pc, job, fi, file, ci, conv,
                 hdr, pre, flog>>
  /\ UNCHANGED <<export, searchVars, auxVars>>

\* ------------------------------------------------------------------ inputs
Users == {"u1", "u2"}

EndpointJob(user, is_claude, form, nfiles, zip_ok) ==
  [user |-> user, is_claude |-> is_claude, form |-> form, via |-> "endpoint",
   db |-> TRUE, nfiles |-> nfiles, zip_ok |-> zip_ok]
DirectJob(user, is_claude, form, db, nfiles) ==
  [user |-> user, is_claude |-> is_claude, form |-> form, via |-> "direct",
   db |-> db, nfiles |-> nfiles, zip_ok |-> TRUE]

\* uploads of a .json file or a .zip archive (sound or corrupt), and direct
\* calls on a directory
JobPool ==
  {EndpointJob("u1", c, "json", 1, TRUE) : c \in BOOLEAN}
  \cup {EndpointJob("u1", c, "zip", MaxFiles, TRUE) : c \in BOOLEAN}
  \cup {EndpointJob("u1", FALSE, "zip", 0, FALSE)}
  \cup {DirectJob("u1", FALSE, "dir", db, 1) : db \in BOOLEAN}

FileShape(k, n, name) == [k |-> k, n |-> n, name |-> name]
FilePool(name) ==
  {FileShape(k, 0, name) : k \in {"invalid", "scalar", "nokey", "badconvs"}}
  \cup {FileShape(k, n, name) : k \in {"list", "dict"}, n \in 0..MaxConvs}

NotADict == Atom("x")
Blank == Str(<<>>)
ConvPool ==
  {NotADict, Conv(Atom("c1"), Absent, MsgList(1), Absent)}
  \cup {Conv(id, Atom("T"), MsgList(n), Absent) :
          id \in {Absent, Atom("c1")}, n \in 0..MaxMsgs}
  \cup {Conv(Atom("c1"), Atom("T"), ms, Absent) : ms \in {Absent, [k |-> "notlist"]}}
  \cup {Conv(Atom("c1"), Atom("T"), Absent, Mapping(nodes)) :
          nodes \in {<<"nomsg", "nondict">>, <<"msg", "nomsg", "msg">>}}

\* a message object with a create_time
Timed(content, create_time) == [Msg(content) EXCEPT !.create_time = create_time]

MsgPool ==
  {NotADict, Msg(Blank),
   Msg(ContentDict(List(<<Str(<<"a">>), Str(<<"b">>)>>), Absent, FALSE)),
   Msg(ContentDict(List(<<Blank, Blank>>), Absent, FALSE)),
   Msg(ContentDict(JNull, Absent, FALSE)),
   Timed(Str(<<"a">>), Num(1)),
   Timed(Str(<<"a">>), IsoStr(2, "Z"))}

\* ----------------------------------------------------------- specification
vars == <<ingestVars, export, searchVars, auxVars>>

NoRequest == [mode |-> "none", query |-> "", limit |-> 0, offset |-> 0, alpha |-> 0,
              include_context |-> FALSE, user |-> "",
              project_id |-> "", provider |-> "", role |-> ""]
SearchIdle ==
  /\ q = NoRequest /\ fts = <<>> /\ vec = <<>> /\ results = <<>> /\ spc = "idle"

Init == IngestInit /\ export = NULL /\ SearchIdle /\ AuxIdle

\* ingestion of exports whose content is free
Next ==
  \/ calls < MaxCalls /\ \E j \in JobPool : Call(j)
  \/ \E f \in FilePool(fi + 1) : OpenFile(f)
  \/ CloseFile
  \/ EndExport
  \/ Return
  \/ \E h \in ConvPool : BeginConversation(h)
  \/ \E m \in MsgPool : ProcessMessage(m)
  \/ EndConversation
  \/ \E h \in ConvPool : ClaudeBeginConversation(h)
  \/ \E m \in MsgPool : ClaudeProcessMessage(m)

Spec == Init /\ [][Next]_vars

\* ------------------------------------------------------------ re-ingestion
\* a conversation object with its message objects (those of the messages list,
\* or those the mapping yields)
FullConv(h, ms) == [h |-> h, msgs |-> ms]

Good == Msg(Str(<<"a">>))
ExportConvs ==
  {FullConv(NotADict, <<>>)}
  \cup {FullConv(Conv(id, Atom("T"), MsgList(Len(ms)), Absent), ms) :
          id \in {Absent, Atom("c1"), Atom("c2")},
          ms \in {<<>>, <<Good>>, <<Good, Msg(Blank)>>}}
  \cup {FullConv(Conv(Atom("c1"), Absent, Absent, Mapping(<<"msg", "nomsg">>)), <<Good>>)}

Exports ==
  {[user |-> u, convs |-> cs] :
     u \in Users,
     cs \in UNION {[1..n -> ExportConvs] : n \in 1..MaxConvs}}

\* a row another ingestion left behind
OldRow(user, ext) ==
  [NewConversation(user, Atom(ext), "T") EXCEPT !.message_count = 1, !.word_count = 1]

ReInit ==
  /\ pc = "idle"
  /\ calls = 0
  /\ export \in {Val(e) : e \in Exports}
  /\ convs \in {<<>>, <<OldRow("u2", "c1")>>}
  /\ msgs = <<>>
  /\ committed = [convs |-> convs, msgs |-> msgs]
  /\ upload = NULL
  /\ job = NoJob
  /\ stats = NoStats
  /\ fi = 0 /\ file = NoFile /\ ci = 0 /\ conv = NoConv /\ mi = 0
  /\ hdr = Absent /\ seen = <<>> /\ pre = NoPre /\ flog = <<>>
  /\ last = "init"
  /\ SearchIdle
  /\ AuxIdle

\* how often the export is ingested
Runs == 2

\* the same .json export uploaded Runs times by its owner
ReNext ==
  \/ calls < Runs /\ Call(EndpointJob(export[1].user, FALSE, "json", 1, TRUE))
  \/ OpenFile(FileShape("list", Len(export[1].convs), 1))
  \/ CloseFile
  \/ Return
  \/ ci < Len(export[1].convs) /\ BeginConversation(export[1].convs[ci + 1].h)
  \/ /\ pc = "conv"
     /\ mi < Len(export[1].convs[ci + 1].msgs)
     /\ ProcessMessage(export[1].convs[ci + 1].msgs[mi + 1])
  \/ EndConversation

SpecReingest == ReInit /\ [][ReNext]_vars

\* ------------------------------------------- a store with a duplicated row
\* exports of owner u1 whose conversation objects carry the ids c1 and c2
DupExports ==
  {e \in Exports :
     /\ e.user = "u1"
     /\ \A k \in 1..Len(e.convs) : IsDict(e.convs[k].h) => Truthy(e.convs[k].h.id)}

\* two rows for (u1, chatgpt, c1), as two concurrent uploads leave them, and
\* one row for c2
DupInit ==
  /\ pc = "idle"
  /\ calls = 0
  /\ export \in {Val(e) : e \in DupExports}
  /\ convs = <<OldRow("u1", "c1"), OldRow("u1", "c1"), OldRow("u1", "c2")>>
  /\ msgs = <<>>
  /\ committed = [convs |-> convs, msgs |-> msgs]
  /\ upload = NULL
  /\ job = NoJob
  /\ stats = NoStats
  /\ fi = 0 /\ file = NoFile /\ ci = 0 /\ conv = NoConv /\ mi = 0
  /\ hdr = Absent /\ seen = <<>> /\ pre = NoPre /\ flog = <<>>
  /\ last = "init"
  /\ SearchIdle
  /\ AuxIdle

\* the export uploaded Runs times, as a .json file or as an archive of one
\* file
DupNext ==
  \/ /\ calls < Runs
     /\ \E form \in {"json", "zip"} : Call(EndpointJob(export[1].user, FALSE, form, 1, TRUE))
  \/ OpenFile(FileShape("list", Len(export[1].convs), 1))
  \/ CloseFile
  \/ EndExport
  \/ Return
  \/ ci < Len(export[1].convs) /\ BeginConversation(export[1].convs[ci + 1].h)
  \/ /\ pc = "conv"
     /\ mi < Len(export[1].convs[ci + 1].msgs)
     /\ ProcessMessage(export[1].convs[ci + 1].msgs[mi + 1])
  \/ EndConversation

SpecDuplicate == DupInit /\ [][DupNext]_vars

\* ------------------------------------------------- exports with timestamps
\* message objects with content "a" and a create_time: an epoch number, an
\* ISO string ending in "Z", or a string that is no date
TimedMsgs ==
  {Timed(Str(<<"a">>), ct) :
     ct \in {Num(1), Num(2), IsoStr(1, "Z"), IsoStr(2, "Z"), Str(<<"x">>)}}

\* exports of conversation c1, as one conversation object or as two, with
\* at most MaxMsgRows messages in all
TimedExports ==
  {[user |-> "u1", convs |-> cs] :
     cs \in {<<FullConv(Conv(Atom("c1"), Atom("T"), MsgList(Len(ms)), Absent), ms)>> :
               ms \in UNION {[1..n -> TimedMsgs] : n \in 1..MaxMsgRows}}
            \cup {<<FullConv(Conv(Atom("c1"), Atom("T"), MsgList(1), Absent), <<m1>>),
                    FullConv(Conv(Atom("c1"), Atom("T"), MsgList(1), Absent), <<m2>>)>> :
                    m1 \in TimedMsgs, m2 \in TimedMsgs}}

\* the row an earlier ingestion of c1 left behind; its dates come back from a
\* DateTime(timezone=True) column (models/database.py lines 113-114)
DatedRow(first_dt, last_dt) ==
  [OldRow("u1", "c1") EXCEPT !.first_message_date = first_dt,
                             !.last_message_date = last_dt]
DatedRows ==
  {DatedRow(NULL, NULL)}
  \cup {DatedRow(Val(Aware(d[1])), Val(Aware(d[2]))) : d \in {<<1, 1>>, <<1, 2>>, <<2, 2>>}}

TimesInit ==
  /\ pc = "idle"
  /\ calls = 0
  /\ export \in {Val(e) : e \in TimedExports}
  /\ convs \in {<<>>} \cup {<<r>> : r \in DatedRows}
  /\ msgs = <<>>
  /\ committed = [convs |-> convs, msgs |-> msgs]
  /\ upload = NULL
  /\ job = NoJob
  /\ stats = NoStats
  /\ fi = 0 /\ file = NoFile /\ ci = 0 /\ conv = NoConv /\ mi = 0
  /\ hdr = Absent /\ seen = <<>> /\ pre = NoPre /\ flog = <<>>
  /\ last = "init"
  /\ SearchIdle
  /\ AuxIdle

\* the .json export uploaded once by its owner
TimesNext ==
  \/ calls < 1 /\ Call(EndpointJob(export[1].user, FALSE, "json", 1, TRUE))
  \/ OpenFile(FileShape("list", Len(export[1].convs), 1))
  \/ CloseFile
  \/ Return
  \/ ci < Len(export[1].convs) /\ BeginConversation(export[1].convs[ci + 1].h)
  \/ /\ pc = "conv"
     /\ mi < Len(export[1].convs[ci + 1].msgs)
     /\ ProcessMessage(export[1].convs[ci + 1].msgs[mi + 1])
  \/ EndConversation

SpecTimes == TimesInit /\ [][TimesNext]_vars

\* ------------------------------------------------ the upload endpoint alone
\* uploads.py line 59: the filename ends in .json or in .zip
Supported(form) == form \in {"json", "zip"}

HTTPError(status, detail) == [status |-> status, detail |-> detail]
\* lines 60-63
UnsupportedType == HTTPError(400, "Only .json and .zip files are supported")
\* lines 128-130: every Exception raised inside the try block of line 57,
\* the HTTPException of line 60 included, is answered by status 500
UploadFailed(exc) == HTTPError(500, "Upload failed")

\* upload_chatgpt_export on a file whose name ends in neither suffix: the
\* check of line 59 raises inside the try block, before line 66
Reject(form) ==
  /\ pc \in {"idle", "returned"}
  /\ ~Supported(form)
  /\ calls' = calls + 1
  /\ job' = EndpointJob(export[1].user, FALSE, form, 0, TRUE)
  /\ ret' = Val(UploadFailed(UnsupportedType))
  /\ pc' = "returned"
  /\ last' = "rejected"
  /\ UNCHANGED <<convs, msgs, committed, upload, stats, fi, file, ci, conv, mi, hdr,
                 seen, pre, flog>>
  /\ UNCHANGED <<export, searchVars, sess, arg, users, who, slog>>

\* lines 78-88 raise after the record was committed at line 75 (the
\* directory cannot be made, the file cannot be written, the commit fails):
\* the handler of line 128 answers, lines 102-110 are not reached
SaveFails ==
  /\ pc = "export" /\ last = "call"
  /\ job.via = "endpoint"
  /\ ret' = Val(UploadFailed("OSError"))
  /\ pc' = "returned"
  /\ last' = "save_failed"
  /\ UNCHANGED <<convs, msgs, committed, upload, calls, job, stats, fi, file, ci, conv,
                 mi, hdr, seen, pre, flog>>
  /\ UNCHANGED <<export, searchVars, sess, arg, users, who, slog>>

\* one upload of a timed export, or of a file of another type
UploadNext ==
  \/ calls < 1 /\ \E form \in {"json", "zip"} :
                    Call(EndpointJob(export[1].user, FALSE, form, 1, TRUE))
  \/ calls < 1 /\ \E form \in {"txt", "jsonl"} : Reject(form)
  \/ SaveFails
  \/ OpenFile(FileShape("list", Len(export[1].convs), 1))
  \/ CloseFile
  \/ EndExport
  \/ Return
  \/ ci < Len(export[1].convs) /\ BeginConversation(export[1].convs[ci + 1].h)
  \/ /\ pc = "conv"
     /\ mi < Len(export[1].convs[ci + 1].msgs)
     /\ ProcessMessage(export[1].convs[ci + 1].msgs[mi + 1])
  \/ EndConversation

\* the request handler runs on until it returns or raises
SpecUpload == TimesInit /\ [][UploadNext]_vars /\ WF_vars(UploadNext)

\* ------------------------------------------ _extract_message_content alone
MaxParts == 2
\* the items of a list of content blocks or of parts
ContentItems == {Str(<<"a">>), Str(<<"b">>), Str(<<"t", "w", "o">>), Blank, Num(1), JNull}
ContentLists == UNION {{List(items) : items \in [1..n -> ContentItems]} : n \in 0..MaxParts}
\* the values of the content member of a message object
ContentValues ==
  {Absent, JNull, Blank, Str(<<"h", "e", "l", "l", "o">>), Str(<<"a">>), Num(0), Num(1)}
  \cup ContentLists
  \cup {ContentDict(parts, text, other) :
          parts \in {Absent, JNull, List(<<>>), List(<<Str(<<"a">>), Str(<<"b">>)>>),
                     Str(<<"a", "b">>)},
          text \in {Absent, JNull, Str(<<"x">>)},
          other \in BOOLEAN}
\* message objects: with a content member, or with text or parts beside it
ExtractInputs ==
  {Msg(c) : c \in ContentValues}
  \cup {[Msg(c) EXCEPT !.text = Str(<<"x">>)] : c \in {Absent, Blank, Str(<<"a">>)}}
  \cup {[Msg(c) EXCEPT !.parts = List(<<Str(<<"a">>), Str(<<"b">>)>>)] :
          c \in {Absent, Blank, Str(<<"a">>)}}

ExtractInit ==
  /\ IngestInit /\ export = NULL /\ SearchIdle
  /\ sess = [p \in Sessions |-> NoSession]
  /\ EnvIdle
  /\ arg \in {Val(m) : m \in ExtractInputs}
  /\ ret = NULL

\* line 229: content = self._extract_message_content(msg_data)
Extract ==
  /\ arg # NULL /\ ret = NULL
  /\ ret' = Val(ExtractMessageContent(arg[1]))
  /\ UNCHANGED <<ingestVars, export, searchVars, sess, arg, users, who, slog>>

ExtractNext == Extract

SpecExtract == ExtractInit /\ [][ExtractNext]_vars

\* ==================================================== concurrent ingestions
\* Two uploads run at once (the event loop switches at each await, and there
\* may be several workers). Each has its own session: it sees the committed
\* rows and the rows it has flushed itself, the others see its rows once it
\* has committed (uploads.py line 110).

\* one conversation object of such an upload: its id and the number of its
\* messages, each with content "a"; every title is "T", so that line 196
\* never writes
Item(id, n) == [id |-> id, n |-> n]

\* the message_count session p has for committed row i: what it wrote itself,
\* else what the table holds
LoadedCount(p, i) ==
  LET own == {k \in 1..Len(sess[p].updates) : sess[p].updates[k].i = i}
  IN IF own = {} THEN committed.convs[i].message_count
     ELSE sess[p].updates[CHOOSE k \in own : \A l \in own : l <= k].message_count

\* a row a session holds: at is "committed" or "pending", i its index there
RowRef(at, i, message_count) == [at |-> at, i |-> i, message_count |-> message_count]

\* lines 172-179 in session p
Visible(p, user, ext) ==
  {RowRef("committed", i, LoadedCount(p, i)) : i \in Lookup(committed.convs, user, ext)}
  \cup {RowRef("pending", i, sess[p].pending[i].message_count) :
          i \in Lookup(sess[p].pending, user, ext)}

\* upload_chatgpt_export begins (lines 65-99) for an export with these
\* conversation objects
CStart(p, user, todo) ==
  /\ sess[p].pc = "idle"
  /\ sess' = [sess EXCEPT ![p] = [NoSession EXCEPT !.pc = "lookup", !.user = user,
                                                   !.todo = todo, !.msgs = <<>>]]
  /\ UNCHANGED <<ingestVars, export, searchVars, arg, ret, users, who, slog>>

\* lines 166-179: the select; scalar_one_or_none raises on several rows, which
\* ends the call at line 48
CLookup(p) ==
  /\ sess[p].pc = "lookup"
  /\ LET found == Visible(p, sess[p].user, Head(sess[p].todo).id)
     IN sess' = [sess EXCEPT ![p].found = found,
                             ![p].pc = IF Cardinality(found) > 1 THEN "commit" ELSE "write"]
  /\ UNCHANGED <<ingestVars, export, searchVars, arg, ret, users, who, slog>>

\* lines 181-197: the insert and its flush when no row was found
CWrite(p) ==
  /\ sess[p].pc = "write"
  /\ sess' = [sess EXCEPT
       ![p].pc = "messages",
       ![p].pending = IF sess[p].found = {}
                      THEN Append(@, NewConversation(sess[p].user,
                                                     Atom(Head(sess[p].todo).id), "T"))
                      ELSE @,
       ![p].found = IF @ = {} THEN {RowRef("pending", Len(sess[p].pending) + 1, 0)} ELSE @]
  /\ UNCHANGED <<ingestVars, export, searchVars, arg, ret, users, who, slog>>

\* lines 199-274: the messages of the conversation and its aggregates
CMessages(p) ==
  /\ sess[p].pc = "messages"
  /\ LET it == Head(sess[p].todo)
         r == CHOOSE x \in sess[p].found : TRUE
         ms == [k \in 1..it.n |-> [conv |-> [at |-> r.at, i |-> r.i],
                                   row |-> NewMessage(sess[p].user, 0, Good, <<"a">>, NULL)]]
     IN sess' = [sess EXCEPT
          ![p].pc = IF Tail(sess[p].todo) = <<>> THEN "commit" ELSE "lookup",
          ![p].todo = Tail(@),
          ![p].found = {},
          ![p].msgs = @ \o ms,
          ![p].pending = IF it.n > 0 /\ r.at = "pending"
                         THEN [@ EXCEPT ![r.i].message_count = @ + it.n,
                                        ![r.i].word_count = @ + it.n]
                         ELSE @,
          ![p].updates = IF it.n > 0 /\ r.at = "committed"
                         THEN Append(@, [i |-> r.i, message_count |-> r.message_count + it.n])
                         ELSE @]
  /\ UNCHANGED <<ingestVars, export, searchVars, arg, ret, users, who, slog>>

RECURSIVE ApplyUpdates(_, _)
\* the UPDATEs of a session, in the order it made them
ApplyUpdates(rows, updates) ==
  IF updates = <<>> THEN rows
  ELSE ApplyUpdates([rows EXCEPT ![updates[1].i].message_count = updates[1].message_count,
                                 ![updates[1].i].word_count = updates[1].message_count],
                    Tail(updates))

\* the table after the INSERTs of a commit when it has no unique constraint
\* on (user_id, provider, external_id)
UniqueRows(rows, pending) ==
  rows \o SelectSeq(pending, LAMBDA r : Lookup(rows, r.user_id, r.external_id[1]) = {})

\* the table after the INSERTs of a commit: models/database.py declares no
\* unique constraint on conversations
CommitRows(rows, pending) == rows \o pending

\* uploads.py line 110: the session's rows become visible to the others
CCommit(p) ==
  /\ sess[p].pc = "commit"
  /\ sess' = [sess EXCEPT ![p].pc = "done"]
  /\ committed' =
       [convs |-> CommitRows(ApplyUpdates(committed.convs, sess[p].updates), sess[p].pending),
        msgs |-> committed.msgs \o
                   [k \in 1..Len(sess[p].msgs) |->
                      [sess[p].msgs[k].row EXCEPT !.conversation_id =
                         IF sess[p].msgs[k].conv.at = "committed"
                         THEN sess[p].msgs[k].conv.i
                         ELSE Len(committed.convs) + sess[p].msgs[k].conv.i]]]
  /\ UNCHANGED <<convs, msgs, upload, calls, pc, job, stats, fi, file, ci, conv, mi,
                 hdr, seen, pre, flog, last, export, searchVars, arg, ret, users, who, slog>>

\* the exports of the concurrent uploads
MaxItems == 2
Todos ==
  UNION {[1..n -> {Item(id, k) : id \in {"c1", "c2"}, k \in 0..1}] : n \in 1..MaxItems}

ConcurrentNext ==
  \/ \E p \in Sessions, u \in Users, todo \in Todos : CStart(p, u, todo)
  \/ \E p \in Sessions : CLookup(p)
  \/ \E p \in Sessions : CWrite(p)
  \/ \E p \in Sessions : CMessages(p)
  \/ \E p \in Sessions : CCommit(p)

SpecConcurrent == Init /\ [][ConcurrentNext]_vars

\* ================================================================ retrieval
\* scores are counted in thousandths, alpha in tenths
UnitScore == 1000
AlphaOne == 10

Min(a, b) == IF a < b THEN a ELSE b

\* the elements of a finite set of numbers in rising order
SetToSeq(S) ==
  [p \in 1..Cardinality(S) |-> CHOOSE x \in S : Cardinality({y \in S : y < x}) = p - 1]

\* s[offset:offset+limit], and OFFSET offset LIMIT limit on an ordered result
Page(s, offset, limit) ==
  IF offset >= Len(s) THEN <<>> ELSE SubSeq(s, offset + 1, Min(offset + limit, Len(s)))

\* the orders in which the elements of a finite set can be enumerated
Perms(S) ==
  {o \in [1..Cardinality(S) -> S] : \A i, j \in 1..Cardinality(S) : i # j => o[i] # o[j]}

RECURSIVE Occurrences(_, _)
\* ts_rank of a text for a one-word query: the number of its characters that
\* are the word (lines 64-70); 0 when the text does not match
Occurrences(s, w) ==
  IF s = <<>> THEN 0 ELSE (IF s[1] = w THEN 1 ELSE 0) + Occurrences(Tail(s), w)
TsRank(i, query) == Occurrences(msgs[i].content, query)

\* lines 33-67: the ids of the owner's messages that match the query
Matching(user, query) ==
  {i \in 1..Len(msgs) : msgs[i].user_id = user /\ TsRank(i, query) > 0}

\* line 71: ORDER BY rank DESC; rows of equal rank come in any order
RankedOrders(S, query) ==
  {o \in Perms(S) : \A i, j \in 1..Len(o) : i < j => TsRank(o[i], query) >= TsRank(o[j], query)}

\* lines 33-67 with the filters: the rows of the select, each a message id
\* and the row of conversations it is combined with (0 for none). The join of
\* line 41 is on messages.conversation_id; the test of line 46 finds
\* "conversation" in the rendered statement (its column
\* messages.conversation_id), so that line 47 never joins and line 48 adds
\* conversations to the FROM list: every message is combined with every row
\* of cs that has the provider. cs: the rows of conversations in the table.
Rows(req, cs) ==
  LET own == {i \in Matching(req.user, req.query) :
                req.role # "" => msgs[i].role = req.role}
  IN IF req.project_id # ""
     THEN {<<i, msgs[i].conversation_id>> :
             i \in {j \in own :
                      /\ msgs[j].conversation_id \in cs
                      /\ convs[msgs[j].conversation_id].project_id = Val(req.project_id)
                      /\ req.provider # ""
                           => convs[msgs[j].conversation_id].provider = req.provider}}
     ELSE IF req.provider # ""
     THEN own \X {c \in cs : convs[c].provider = req.provider}
     ELSE own \X {0}

\* line 71 on these rows
RankedRows(S, query) ==
  {o \in Perms(S) :
     \A i, j \in 1..Len(o) : i < j => TsRank(o[i][1], query) >= TsRank(o[j][1], query)}

\* result.scalars().all(): the message of each row
Scalars(rows) == [k \in 1..Len(rows) |-> rows[k][1]]

\* SearchService._format_search_results, of the messages with these ids
FormatSearchResults(ids) ==
  [k \in 1..Len(ids) |->
     [message_id |-> ids[k],
      conversation_id |-> msgs[ids[k]].conversation_id,
      provider |-> convs[msgs[ids[k]].conversation_id].provider,
      role |-> msgs[ids[k]].role,
      relevance_score |-> UnitScore,
      context |-> NULL]]

\* SearchService.full_text_search, ranked being the order the database gives
FullTextSearch(ranked, limit, offset) == FormatSearchResults(Page(ranked, offset, limit))

\* a vector search that returned what the lexical search finds
LexicalFallback(limit, offset) ==
  FormatSearchResults(Page(SetToSeq(Matching("u1", "a")), offset, limit))

\* SearchService.vector_search
VectorSearch(limit, offset) == <<>>

\* the message ids of a list of results
Ids(rs) == {rs[k].message_id : k \in 1..Len(rs)}
\* dict built at lines 258-259: the last result of the list with this id
ResultOf(rs, id) ==
  rs[CHOOSE k \in 1..Len(rs) :
       /\ rs[k].message_id = id
       /\ \A l \in 1..Len(rs) : rs[l].message_id = id => l <= k]
\* lines 270-271
ScoreOf(rs, id) == IF id \in Ids(rs) THEN ResultOf(rs, id).relevance_score ELSE 0

\* the weights of line 273 exchanged
ExchangedWeights(alpha, vector_score, fts_score) ==
  (alpha * fts_score + (AlphaOne - alpha) * vector_score) \div AlphaOne

\* line 273
CombinedScore(alpha, vector_score, fts_score) ==
  (alpha * vector_score + (AlphaOne - alpha) * fts_score) \div AlphaOne

\* list.sort(key = relevance_score, reverse = True): stable, elements of equal
\* score keep their order
SortByScore(rs) ==
  LET Before(i) == {j \in 1..Len(rs) :
                      \/ rs[j].relevance_score > rs[i].relevance_score
                      \/ rs[j].relevance_score = rs[i].relevance_score /\ j < i}
  IN [p \in 1..Len(rs) |-> rs[CHOOSE i \in 1..Len(rs) : Cardinality(Before(i)) = p - 1]]

\* SearchService._combine_search_results; order is the order in which the set
\* all_ids is iterated (line 265)
CombineSearchResults(fts_results, vector_results, alpha, limit, order) ==
  LET combined ==
        [k \in 1..Len(order) |->
           LET base == IF order[k] \in Ids(fts_results)
                       THEN ResultOf(fts_results, order[k])
                       ELSE ResultOf(vector_results, order[k])
           IN [base EXCEPT !.relevance_score =
                 CombinedScore(alpha, ScoreOf(vector_results, order[k]),
                               ScoreOf(fts_results, order[k]))]]
  IN Page(SortByScore(combined), 0, limit)

\* lines 187-195: the owner's messages of conversation c, ORDER BY
\* timestamp_value (NULL last)
ConversationMessages(user, c) ==
  LET S == {i \in 1..Len(msgs) : msgs[i].user_id = user /\ msgs[i].conversation_id = c}
      Earlier(j, i) ==
        \/ msgs[j].timestamp_value # NULL /\ msgs[i].timestamp_value = NULL
        \/ /\ msgs[j].timestamp_value # NULL /\ msgs[i].timestamp_value # NULL
           /\ msgs[j].timestamp_value[1].inst < msgs[i].timestamp_value[1].inst
        \/ /\ \/ msgs[j].timestamp_value = msgs[i].timestamp_value
              \/ /\ msgs[j].timestamp_value # NULL /\ msgs[i].timestamp_value # NULL
                 /\ msgs[j].timestamp_value[1].inst = msgs[i].timestamp_value[1].inst
           /\ j < i
  IN [p \in 1..Cardinality(S) |->
        CHOOSE i \in S : Cardinality({j \in S : Earlier(j, i)}) = p - 1]

\* lines 203-209
ContextEntry(i) ==
  [id |-> i, role |-> msgs[i].role, timestamp |-> msgs[i].timestamp_value,
   is_current |-> FALSE]
\* lines 198-209: messages_by_conv
MessagesByConv(user, cs) ==
  [c \in {d \in cs : Len(ConversationMessages(user, d)) > 0} |->
     [p \in 1..Len(ConversationMessages(user, c)) |->
        ContextEntry(ConversationMessages(user, c)[p])]]

\* lines 216-219: the first entry with this id is flagged
FlagCurrent(entries, id) ==
  IF \E p \in 1..Len(entries) : entries[p].id = id
  THEN [entries EXCEPT ![CHOOSE p \in 1..Len(entries) :
                           /\ entries[p].id = id
                           /\ \A r \in 1..p - 1 : entries[r].id # id].is_current = TRUE]
  ELSE entries

RECURSIVE MarkCurrent(_, _, _)
\* the loop of line 212 from result k on: by_conv after it
MarkCurrent(by_conv, rs, k) ==
  IF k > Len(rs) THEN by_conv
  ELSE IF rs[k].conversation_id \in DOMAIN by_conv
  THEN MarkCurrent([by_conv EXCEPT ![rs[k].conversation_id] = FlagCurrent(@, rs[k].message_id)],
                   rs, k + 1)
  ELSE MarkCurrent(by_conv, rs, k + 1)

\* SearchService.add_conversation_context: each result refers to the list of
\* its conversation, one list object per conversation (line 221)
AddConversationContext(rs, user) ==
  IF rs = <<>> THEN rs
  ELSE LET by_conv == MarkCurrent(MessagesByConv(user, {rs[k].conversation_id : k \in 1..Len(rs)}),
                                  rs, 1)
       IN [k \in 1..Len(rs) |->
             IF rs[k].conversation_id \in DOMAIN by_conv
             THEN [rs[k] EXCEPT !.context = Val(by_conv[rs[k].conversation_id])]
             ELSE rs[k]]

\* SearchService.hybrid_search, given what the two searches returned
HybridSearch(fts_results, vector_results, alpha, limit, offset, order) ==
  Page(CombineSearchResults(fts_results, vector_results, alpha, limit, order), offset, limit)

\* endpoint search_conversations (api/v1/endpoints/search.py lines 98-142):
\* ranked is the order in which the database returns the matching rows, order
\* the order in which the set of candidate ids is iterated
SearchConversations(req) ==
  /\ spc = "idle"
  /\ q' = req
  /\ spc' = "responded"
  /\ \E rows \in RankedRows(Rows(req, 1..Len(convs)), req.query) :
       LET ranked == Scalars(rows)
           f == CASE req.mode = "fts" -> FullTextSearch(ranked, req.limit, req.offset)
                  [] req.mode = "vector" -> <<>>
                  [] req.mode = "hybrid" -> FullTextSearch(ranked, req.limit * 2, 0)
           v == CASE req.mode = "fts" -> <<>>
                  [] req.mode = "vector" -> VectorSearch(req.limit, req.offset)
                  [] req.mode = "hybrid" -> VectorSearch(req.limit * 2, 0)
       IN \E order \in Perms(IF req.mode = "hybrid" THEN Ids(f) \cup Ids(v) ELSE {}) :
            LET found == CASE req.mode = "fts" -> f
                           [] req.mode = "vector" -> v
                           [] req.mode = "hybrid" ->
                                HybridSearch(f, v, req.alpha, req.limit, req.offset, order)
            IN /\ fts' = f
               /\ vec' = v
               /\ results' = IF req.include_context /\ found # <<>>
                             THEN AddConversationContext(found, req.user)
                             ELSE found
  /\ UNCHANGED <<ingestVars, export, auxVars>>

\* ORDER BY last_message_date DESC: NULL comes first, rows of equal date in
\* any order
LaterOrEqual(a, b) == a = NULL \/ (b # NULL /\ a[1].inst >= b[1].inst)

\* SearchService.search_conversations without query and project: the request
\* and what it returns, order being the order the database gives
ListConversations(user, provider, limit, offset) ==
  /\ spc = "idle"
  /\ spc' = "listed"
  /\ arg' = Val([op |-> "search_conversations", user |-> user, provider |-> provider,
                 limit |-> limit, offset |-> offset])
  /\ \E order \in Perms({c \in 1..Len(convs) :
                           /\ convs[c].user_id = user
                           /\ provider # "" => convs[c].provider = provider}) :
       /\ \A i, j \in 1..Len(order) :
            i < j => LaterOrEqual(convs[order[i]].last_message_date,
                                  convs[order[j]].last_message_date)
       /\ ret' = Val([k \in 1..Len(Page(order, offset, limit)) |->
                        LET c == Page(order, offset, limit)[k]
                        IN [id |-> c, title |-> convs[c].title,
                            provider |-> convs[c].provider,
                            message_count |-> convs[c].message_count]])
  /\ UNCHANGED <<ingestVars, export, sess, q, fts, vec, results, users, who, slog>>

\* SearchService.get_message_by_id: None when the owner has no such message
GetMessageById(user, message_id) ==
  /\ spc = "idle"
  /\ spc' = "got"
  /\ arg' = Val([op |-> "get_message_by_id", user |-> user, message_id |-> message_id])
  /\ ret' = IF message_id \in 1..Len(msgs) /\ msgs[message_id].user_id = user
            THEN Val([id |-> message_id,
                      conversation_id |-> msgs[message_id].conversation_id,
                      provider |-> convs[msgs[message_id].conversation_id].provider,
                      role |-> msgs[message_id].role])
            ELSE NULL
  /\ UNCHANGED <<ingestVars, export, sess, q, fts, vec, results, users, who, slog>>

\* the status of the response after log_search, were its exception to reach
\* the caller
Reported(status, outcome) == IF outcome = "logged" THEN status ELSE "error"

\* lines 262-263 of the endpoint module: log_search catches every Exception
\* and only logs it
Swallowed(status, outcome) == status

\* log_search (lines 239-263), the background task the endpoint adds at lines
\* 123-133 once the results are computed; outcome: "logged", or where it
\* raised, "add_failed" (line 259) or "commit_failed" (line 260)
LogSearch(outcome) ==
  /\ spc = "responded"
  /\ slog.outcome = "none"
  /\ slog' = [outcome |-> outcome,
              rows |-> IF outcome = "logged" THEN slog.rows + 1 ELSE slog.rows]
  /\ spc' = Swallowed(spc, outcome)
  /\ UNCHANGED <<ingestVars, export, q, fts, vec, results, sess, arg, ret, users, who>>

\* ------------------------------------------------------- retrieval: inputs
MaxStore == 3
MaxLimit == 2
MaxOffset == 2

Request(mode, query, limit, offset, alpha, include_context, user) ==
  [mode |-> mode, query |-> query, limit |-> limit, offset |-> offset,
   alpha |-> alpha, include_context |-> include_context, user |-> user,
   project_id |-> "", provider |-> "", role |-> ""]
\* the request with the filters of endpoint lines 90-96, "" for none
Filtered(req, project_id, provider, role) ==
  [req EXCEPT !.project_id = project_id, !.provider = provider, !.role = role]

Alphas == {0, 5, AlphaOne}

Requests ==
  {Request(mode, "a", limit, offset, alpha, ctx, "u1") :
     mode \in {"fts", "vector", "hybrid"}, limit \in 1..MaxLimit,
     offset \in 0..MaxOffset, alpha \in Alphas, ctx \in BOOLEAN}

\* a stored message: content is "a" (matches the query "a"), "a a" (matches it
\* better) or "b"
Contents == {<<"a">>, <<"a", " ", "a">>, <<"b">>}
StoredMessage(user, c, content, inst) ==
  [user_id |-> user, conversation_id |-> c, external_id |-> NULL, role |-> "user",
   content |-> content, word_count |-> WordCount(content),
   timestamp_value |-> Val(Aware(inst))]

\* stores of up to MaxStore messages of two conversations, their timestamps
\* distinct, rising or falling with the id
Stores ==
  UNION {{[i \in 1..n |-> StoredMessage("u1", c[i], t[i], IF up THEN i ELSE n + 1 - i)] :
            c \in [1..n -> 1..2], t \in [1..n -> Contents], up \in BOOLEAN} :
         n \in 1..MaxStore}

SearchInit ==
  /\ pc = "idle" /\ calls = 0 /\ upload = NULL /\ job = NoJob /\ stats = NoStats
  /\ fi = 0 /\ file = NoFile /\ ci = 0 /\ conv = NoConv /\ mi = 0
  /\ hdr = Absent /\ seen = <<>> /\ pre = NoPre /\ flog = <<>> /\ last = "init"
  /\ export = NULL
  /\ convs = <<NewConversation("u1", Atom("c1"), "T"), NewConversation("u1", Atom("c2"), "T")>>
  /\ msgs \in Stores
  /\ committed = [convs |-> convs, msgs |-> msgs]
  /\ SearchIdle
  /\ AuxIdle

SearchNext == \E req \in Requests : SearchConversations(req)

SpecSearch == SearchInit /\ [][SearchNext]_vars

\* ------------------------------------------------- retrieval with filters
\* a conversation row of a provider: file_processor.py stores "chatgpt",
\* scripts/load_sample_data.py "chatgpt" (line 107) and "claude" (line 154);
\* nothing assigns project_id
ProviderRow(user, ext, provider) ==
  [NewConversation(user, Atom(ext), "T") EXCEPT !.provider = provider]

\* the conversations table: a chatgpt conversation of u1, and possibly a
\* claude conversation of u1, a second chatgpt conversation of u1, a chatgpt
\* conversation of u2
FilterConvs ==
  LET A == ProviderRow("u1", "c1", "chatgpt")
      B == ProviderRow("u1", "c2", "claude")
      C == ProviderRow("u1", "c3", "chatgpt")
      U == ProviderRow("u2", "c1", "chatgpt")
  IN {<<A>>, <<A, B>>, <<A, C>>, <<A, U>>, <<A, B, U>>}

MaxFiltered == 2
\* the messages table: up to MaxFiltered messages, each of the owner of its
\* conversation, with content "a" or "b" and role user or assistant
FilterStores(cs) ==
  UNION {{[i \in 1..n |->
             [StoredMessage(cs[c[i]].user_id, c[i], t[i], i) EXCEPT !.role = r[i]]] :
            c \in [1..n -> 1..Len(cs)], t \in [1..n -> {<<"a">>, <<"b">>}],
            r \in [1..n -> {"user", "assistant"}]} :
         n \in 1..MaxFiltered}

FilterRequests ==
  {Filtered(Request(mode, "a", limit, offset, 5, ctx, "u1"), project_id, provider, role) :
     mode \in {"fts", "vector", "hybrid"}, limit \in 1..MaxLimit, offset \in 0..1,
     ctx \in BOOLEAN,
     project_id \in {"", "p1"}, provider \in {"", "chatgpt", "claude"},
     role \in {"", "user"}}

FilterInit ==
  /\ pc = "idle" /\ calls = 0 /\ upload = NULL /\ job = NoJob /\ stats = NoStats
  /\ fi = 0 /\ file = NoFile /\ ci = 0 /\ conv = NoConv /\ mi = 0
  /\ hdr = Absent /\ seen = <<>> /\ pre = NoPre /\ flog = <<>> /\ last = "init"
  /\ export = NULL
  /\ convs \in FilterConvs
  /\ msgs \in FilterStores(convs)
  /\ committed = [convs |-> convs, msgs |-> msgs]
  /\ SearchIdle
  /\ AuxIdle

FilterNext ==
  \/ \E req \in FilterRequests : SearchConversations(req)
  \/ \E provider \in {"", "chatgpt", "claude"}, limit \in 1..MaxLimit, offset \in 0..1 :
       ListConversations("u1", provider, limit, offset)
  \/ \E id \in 1..MaxFiltered : GetMessageById("u1", id)
  \/ \E outcome \in {"logged", "add_failed", "commit_failed"} : LogSearch(outcome)

SpecFilter == FilterInit /\ [][FilterNext]_vars

\* --------------------------------------------- who uploads and who searches
\* the users table holds at most the user of email sample@example.com
\* ("sample") and the user of id 00000000-0000-0000-0000-000000000001
\* ("default")

\* uploads.get_current_user (lines 20-41): the default user, created and
\* committed when missing
UploadsCurrentUser ==
  /\ pc \in {"idle", "returned"}
  /\ who.upload = ""
  /\ who' = [who EXCEPT !.upload = "default"]
  /\ users' = users \cup {"default"}
  /\ UNCHANGED <<ingestVars, export, searchVars, sess, arg, ret, slog>>

\* search.get_current_user (lines 24-58): the sample user when there is one,
\* else the default user, created and committed when missing
SearchCurrentUser ==
  /\ spc = "idle"
  /\ who.search = ""
  /\ IF "sample" \in users
     THEN /\ who' = [who EXCEPT !.search = "sample"]
          /\ UNCHANGED users
     ELSE /\ who' = [who EXCEPT !.search = "default"]
          /\ users' = users \cup {"default"}
  /\ UNCHANGED <<ingestVars, export, searchVars, sess, arg, ret, slog>>

\* the conversation and the message load_chatgpt_data (lines 88-131) stores
\* for an item {"id": "s1", "title": "T", "messages": [{"role": "user",
\* "content": "a"}]}; datetime.now() is instant 1
SampleRow ==
  [NewConversation("sample", Atom("s1"), "T") EXCEPT !.message_count = 1]
SampleMessage(row) ==
  [user_id |-> "sample", conversation_id |-> row, external_id |-> Val(""),
   role |-> "user", content |-> <<"a">>, word_count |-> 1,
   timestamp_value |-> Val(Aware(1))]

\* scripts/load_sample_data.py run between requests for the first time: lines
\* 53-75 create the sample user; with_data: data/openai/conversations.json
\* exists (line 78) and holds the item above
LoadSampleData(with_data) ==
  /\ pc \in {"idle", "returned"}
  /\ "sample" \notin users
  /\ users' = users \cup {"sample"}
  /\ IF with_data
     THEN /\ convs' = Append(convs, SampleRow)
          /\ msgs' = Append(msgs, SampleMessage(Len(convs) + 1))
          /\ committed' = [convs |-> Append(committed.convs, SampleRow),
                           msgs |-> Append(committed.msgs, SampleMessage(Len(convs) + 1))]
     ELSE UNCHANGED <<convs, msgs, committed>>
  /\ UNCHANGED <<upload, calls, pc, job, stats, fi, file, ci, conv, mi, hdr, seen,
                 pre, flog, last>>
  /\ UNCHANGED <<export, searchVars, sess, arg, ret, who, slog>>

\* exports of one or two conversations with a message of content "a"
OwnerExports ==
  {[user |-> "default", convs |-> cs] :
     cs \in {<<FullConv(Conv(Atom("c1"), Atom("T"), MsgList(Len(ms)), Absent), ms)>> :
               ms \in {<<Good>>, <<Good, Msg(Blank)>>}}
            \cup {<<FullConv(Conv(Atom("c1"), Atom("T"), MsgList(1), Absent), <<Good>>),
                    FullConv(Conv(Atom(id), Atom("T"), MsgList(0), Absent), <<>>)>> :
                    id \in {"c1", "c2"}}}

OwnerInit ==
  /\ IngestInit
  /\ export \in {Val(e) : e \in OwnerExports}
  /\ SearchIdle
  /\ AuxIdle

\* the searches of the caller for the word "a"
OwnerRequests(user) ==
  {Request(mode, "a", MaxLimit, 0, AlphaOne, ctx, user) :
     mode \in {"fts", "hybrid"}, ctx \in BOOLEAN}

\* one caller: the sample loader may run at any time between requests; the
\* caller uploads an export and, once the upload has returned, searches
OwnerNext ==
  \/ \E with_data \in BOOLEAN : LoadSampleData(with_data)
  \/ calls < 1 /\ UploadsCurrentUser
  \/ /\ calls < 1 /\ who.upload # ""
     /\ Call(EndpointJob(who.upload, FALSE, "json", 1, TRUE))
  \/ OpenFile(FileShape("list", Len(export[1].convs), 1))
  \/ CloseFile
  \/ Return
  \/ ci < Len(export[1].convs) /\ BeginConversation(export[1].convs[ci + 1].h)
  \/ /\ pc = "conv"
     /\ mi < Len(export[1].convs[ci + 1].msgs)
     /\ ProcessMessage(export[1].convs[ci + 1].msgs[mi + 1])
  \/ EndConversation
  \/ pc = "returned" /\ SearchCurrentUser
  \/ /\ pc = "returned" /\ who.search # ""
     /\ \E req \in OwnerRequests(who.search) : SearchConversations(req)

SpecOwner == OwnerInit /\ [][OwnerNext]_vars

\* ------------------------------------------- _combine_search_results alone
MaxCandidates == 2
CandidateIds == {1, 2, 3}
CandidateScores == {600, 800}

Candidate(id, score) ==
  [message_id |-> id, conversation_id |-> 1, provider |-> "chatgpt", role |-> "user",
   relevance_score |-> score, context |-> NULL]

\* lists of results with distinct message ids
CandidateLists ==
  UNION {{[k \in 1..n |-> Candidate(ids[k], sc[k])] :
            ids \in {o \in [1..n -> CandidateIds] : \A i, j \in 1..n : i # j => o[i] # o[j]},
            sc \in [1..n -> CandidateScores]} :
         n \in 0..MaxCandidates}

CombineInit ==
  /\ IngestInit
  /\ export = NULL
  /\ q \in {Request("combine", "", limit, 0, alpha, FALSE, "") :
              limit \in 1..MaxLimit + 1, alpha \in Alphas}
  /\ fts \in CandidateLists
  /\ vec \in CandidateLists
  /\ results = <<>>
  /\ spc = "idle"
  /\ AuxIdle

\* one call _combine_search_results(fts, vec, alpha, limit)
Combine ==
  /\ spc = "idle"
  /\ \E order \in Perms(Ids(fts) \cup Ids(vec)) :
       results' = CombineSearchResults(fts, vec, q.alpha, q.limit, order)
  /\ spc' = "combined"
  /\ UNCHANGED <<ingestVars, export, q, fts, vec, auxVars>>

CombineNext == Combine

SpecCombine == CombineInit /\ [][CombineNext]_vars

\* ================================================================== claims
\* what the claims say of a conversation's message objects
HasContent(m) ==
  /\ IsDict(m)
  /\ ExtractMessageContent(m).ok
  /\ ExtractMessageContent(m).s # <<>>
HasVisibleContent(m) == HasContent(m) /\ WordCount(ExtractMessageContent(m).s) > 0
ClaudeHasContent(m) == IsDict(m) /\ (Truthy(m.text) \/ Truthy(m.content))

ContentCount(ms) == Cardinality({i \in 1..Len(ms) : HasContent(ms[i])})
VisibleCount(ms) == Cardinality({i \in 1..Len(ms) : HasVisibleContent(ms[i])})
ClaudeContentCount(ms) == Cardinality({i \in 1..Len(ms) : ClaudeHasContent(ms[i])})

RECURSIVE ContentWords(_)
ContentWords(ms) ==
  IF ms = <<>> THEN 0
  ELSE (IF HasContent(ms[1]) THEN WordCount(ExtractMessageContent(ms[1]).s) ELSE 0)
       + ContentWords(Tail(ms))

OwnerConversations(rows, user) ==
  Cardinality({i \in 1..Len(rows) : rows[i].user_id = user})

\* the pass over the conversation last begun is over, every message object
\* of it having been handled: the loop ended, or its last message raised
ConversationOver ==
  /\ last \in {"end", "raise_content", "raise_compare"}
  /\ Len(seen) = conv.n
\* that conversation's row was created by this pass
FirstIngestion ==
  /\ job.db /\ ~job.is_claude
  /\ conv.row > Len(pre.convs)

\* C1: ingesting the same chatgpt export a second time leaves as many
\* conversations of its owner as the first ingestion did, whether or not the
\* conversation objects carry an id.
C1_ReingestKeepsConversationCount ==
  (export # NULL /\ calls = Runs /\ pc = "done")
    => OwnerConversations(convs, job.user) = OwnerConversations(committed.convs, job.user)

\* C2: the first ingestion of a chatgpt conversation with N messages that
\* have non-empty extractable content (the others being empty or unparseable)
\* adds N to messages_processed and leaves the conversation's message_count
\* at N and its word_count at the sum of those messages' word counts.
C2_FirstIngestionCounts ==
  (ConversationOver /\ FirstIngestion)
    => /\ stats.messages_processed - pre.stats.messages_processed = ContentCount(seen)
       /\ convs[conv.row].message_count = ContentCount(seen)
       /\ convs[conv.row].word_count = ContentWords(seen)

\* a conversation from which no message with content was obtained
ZeroExtractable ==
  \/ last = "skip_nomsgs"
  \/ /\ last = "end"
     /\ IF job.is_claude THEN ClaudeContentCount(seen) = 0 ELSE ContentCount(seen) = 0

\* C3: a conversation with zero extractable messages is neither counted in
\* conversations_processed nor does it create or modify a Conversation row.
C3_EmptyConversationSkipped ==
  ZeroExtractable
    => /\ stats.conversations_processed = pre.stats.conversations_processed
       /\ convs = pre.convs

\* C4: a message whose extracted content is empty or only whitespace is not
\* counted and not stored, so every stored message has a non-blank character.
C4_BlankMessageSkipped ==
  /\ \A i \in 1..Len(msgs) : WordCount(msgs[i].content) > 0
  /\ (last = "end" /\ ~job.is_claude)
       => stats.messages_processed - pre.stats.messages_processed = VisibleCount(seen)

\* the candidates a hybrid search fused
Candidates == Ids(fts) \cup Ids(vec)

\* C5: a hybrid search with limit L and offset O over at least O + L fused
\* candidates returns L results, those of ranks O+1..O+L, none of them twice.
C5_HybridPagination ==
  (spc = "responded" /\ q.mode = "hybrid" /\ Cardinality(Candidates) >= q.offset + q.limit)
    => /\ Len(results) = q.limit
       /\ Cardinality(Ids(results)) = q.limit
       /\ Ids(results) \subseteq Candidates

\* the score a candidate list gives an id, 0 when it does not list it
ListedScore(rs, id) ==
  IF \E k \in 1..Len(rs) : rs[k].message_id = id
  THEN rs[CHOOSE k \in 1..Len(rs) : rs[k].message_id = id].relevance_score
  ELSE 0
\* alpha * semantic + (1 - alpha) * lexical
Fused(id) == (q.alpha * ListedScore(vec, id) + (10 - q.alpha) * ListedScore(fts, id)) \div 10

InOrderOf(rs, ref) ==
  /\ Ids(rs) \subseteq Ids(ref)
  /\ \A i, j \in 1..Len(rs) :
       i < j => \E a, b \in 1..Len(ref) :
                  /\ a < b
                  /\ ref[a].message_id = rs[i].message_id
                  /\ ref[b].message_id = rs[j].message_id

\* C7: with alpha = 0 a hybrid search returns its results in the order
\* full_text_search ranked them, with alpha = 1 in the order vector_search
\* ranked them.
C7_AlphaExtremes ==
  (spc = "responded" /\ q.mode = "hybrid")
    => /\ q.alpha = 0 => InOrderOf(results, fts)
       /\ q.alpha = AlphaOne => InOrderOf(results, vec)

\* C8: after add_conversation_context every result carries the complete list
\* of the owner's messages of its conversation in timestamp order, exactly
\* one of them flagged is_current: the result's own message.
C8_ContextFlagsMatchedMessage ==
  (spc = "responded" /\ q.include_context)
    => \A k \in 1..Len(results) :
         /\ results[k].context # NULL
         /\ LET ctx == results[k].context[1]
            IN /\ [p \in 1..Len(ctx) |-> ctx[p].id]
                    = ConversationMessages(q.user, results[k].conversation_id)
               /\ \A p \in 1..Len(ctx) :
                    ctx[p].is_current <=> ctx[p].id = results[k].message_id

\* C9: process_*_export ends with a stats object of the four members whatever
\* is raised; in a directory or an archive every file is gone through, a file
\* that failed has an error naming it, and every other file is processed to
\* its end and listed in files_processed.
C9_ExportAlwaysReturnsStats ==
  /\ DOMAIN stats = {"conversations_processed", "messages_processed",
                     "files_processed", "errors"}
  /\ last \in {"badzip", "raise_open", "raise_lookup", "raise_content", "raise_compare"}
       => pc \in {"export", "done"} /\ stats.errors # <<>>
  /\ (pc \in {"done", "returned"} /\ job.form \in {"zip", "dir"} /\ job.zip_ok)
       => /\ Len(flog) = job.nfiles
          /\ \A i \in 1..Len(flog) :
               IF flog[i].failed # "no"
               THEN \E e \in 1..Len(stats.errors) :
                      stats.errors[e].k = "file" /\ stats.errors[e].name = flog[i].name
               ELSE /\ flog[i].handled = flog[i].n
                    /\ \E p \in 1..Len(stats.files_processed) :
                         stats.files_processed[p] = flog[i].name

\* an archive of two files, the first failing inside a conversation, the
\* second processed with its conversations
C9_Witness ==
  /\ pc = "done" /\ job.form = "zip" /\ Len(flog) = 2
  /\ flog[1].failed = "conv"
  /\ flog[2].failed = "no" /\ flog[2].handled > 0
  /\ stats.files_processed = <<2>>

\* a file of the job in which a conversation failed partway
FailedInConversation(i) == flog[i].failed = "conv"

\* C10: when one conversation fails partway the failure is in stats.errors,
\* the other conversations of the file are still handled, and what the
\* failed conversation had added is not committed.
C10_ConversationFailureIsolated ==
  (pc = "returned" /\ job.via = "endpoint" /\ job.form = "json"
     /\ flog # <<>> /\ FailedInConversation(1))
    => /\ stats.errors # <<>>
       /\ flog[1].handled = flog[1].n - 1
       /\ Len(committed.convs) = Len(pre.convs)
       /\ Len(committed.msgs) = pre.msgs

\* conversation rows i < j of the table with the same (owner, provider,
\* external id)
SameKey(rows, i, j) ==
  /\ i < j
  /\ rows[i].external_id # NULL
  /\ rows[i].user_id = rows[j].user_id
  /\ rows[i].provider = rows[j].provider
  /\ rows[i].external_id = rows[j].external_id
\* the conversation rows the sessions that have committed inserted
Inserted(p) == IF sess[p].pc = "done" THEN Len(sess[p].pending) ELSE 0

\* C11: the store rejects no conversation row: every row a session inserted
\* after a lookup that found none is in the table once the session has
\* committed, also when another session has inserted a row with the same
\* (owner, provider, external id) in between, which leaves two such rows.
C11_DuplicateNotPrevented ==
  /\ Len(committed.convs) = Inserted(1) + Inserted(2)
  /\ \A p \in Sessions :
       sess[p].pc = "write" /\ sess[p].found = {}
         => Lookup(sess[p].pending, sess[p].user, Head(sess[p].todo).id) = {}

\* both uploads have committed and the table holds two rows with the same key
C11_Witness ==
  /\ sess[1].pc = "done" /\ sess[2].pc = "done"
  /\ sess[1].user = sess[2].user
  /\ \E i, j \in 1..Len(committed.convs) : SameKey(committed.convs, i, j)

\* the least and the greatest of a non-empty set of instants
MinOf(S) == CHOOSE x \in S : \A y \in S : x <= y
MaxOf(S) == CHOOSE x \in S : \A y \in S : y <= x
\* the instant of a nullable datetime, as a set
InstantOf(d) == IF d = NULL THEN {} ELSE {d[1].inst}
\* the instants of the timestamps of the messages stored since the pass began
PassInstants ==
  UNION {InstantOf(msgs[k].timestamp_value) : k \in (pre.msgs + 1)..Len(msgs)}
\* a pass over a conversation that existed before has ended
ExistingConversationOver ==
  /\ last = "end" /\ job.db /\ ~job.is_claude
  /\ conv.row \in 1..Len(pre.convs)

\* C12: after a pass over an existing conversation its first_message_date is
\* the minimum of the previous value and the earliest timestamp of the pass,
\* and its last_message_date the maximum of the previous value and the latest
\* timestamp of the pass, a null value being no constraint.
C12_DatesAreMinAndMax ==
  ExistingConversationOver =>
    LET old == pre.convs[conv.row]
        new == convs[conv.row]
        firsts == InstantOf(old.first_message_date) \cup PassInstants
        lasts == InstantOf(old.last_message_date) \cup PassInstants
    IN /\ InstantOf(new.first_message_date) = IF firsts = {} THEN {} ELSE {MinOf(firsts)}
       /\ InstantOf(new.last_message_date) = IF lasts = {} THEN {} ELSE {MaxOf(lasts)}

\* the title of the export's conversation object, "" when it has none
ExportTitle(h) == IF Truthy(h.title) THEN h.title.a ELSE ""
\* lines 162-211 have just run for a conversation object with a db session
ConversationBegun ==
  /\ last \in {"begin", "skip_nomsgs"} /\ job.db /\ ~job.is_claude /\ IsDict(hdr)

\* C13: the title of a conversation that existed before changes only when the
\* export's title is non-empty and differs from the stored one; an export
\* whose title is empty or missing leaves a stored non-empty title unchanged.
C13_TitleChangesOnlyToExportTitle ==
  ConversationBegun =>
    \A i \in 1..Len(pre.convs) :
      /\ convs[i].title # pre.convs[i].title
           => /\ ExportTitle(hdr) # ""
              /\ ExportTitle(hdr) # pre.convs[i].title
              /\ convs[i].title = ExportTitle(hdr)
      /\ (ExportTitle(hdr) = "" /\ pre.convs[i].title # "")
           => convs[i].title = pre.convs[i].title

\* a full_text_search has answered a request with a provider filter
ProviderFiltered == spc = "responded" /\ q.mode = "fts" /\ q.provider # ""

\* C14: full_text_search with a provider filter, with or without a project
\* filter, returns only messages of conversations of that provider and each
\* matching message at most once; with a role filter it returns only messages
\* of that role.
C14_ProviderAndRoleFilters ==
  /\ ProviderFiltered
       => /\ \A k \in 1..Len(fts) :
               convs[msgs[fts[k].message_id].conversation_id].provider = q.provider
          /\ \A k, l \in 1..Len(fts) : k # l => fts[k].message_id # fts[l].message_id
  /\ (spc = "responded" /\ q.mode = "fts" /\ q.role # "")
       => \A k \in 1..Len(fts) : msgs[fts[k].message_id].role = q.role

\* the rows of conversations the owner of the request owns
OwnConvs(user) == {c \in 1..Len(convs) : convs[c].user_id = user}
\* what full_text_search can return for these arguments when the table holds
\* the conversations cs only
FtsOutcomes(req, cs, limit, offset) ==
  {FullTextSearch(Scalars(rows), limit, offset) : rows \in RankedRows(Rows(req, cs), req.query)}
\* every result, and every message of its context, is the owner's
OwnedResults(rs, user) ==
  \A k \in 1..Len(rs) :
    /\ msgs[rs[k].message_id].user_id = user
    /\ convs[rs[k].conversation_id].user_id = user
    /\ rs[k].context # NULL
         => \A p \in 1..Len(rs[k].context[1]) :
              msgs[rs[k].context[1][p].id].user_id = user

\* C15: retrieval is owner-scoped: what full_text_search, hybrid_search,
\* search_conversations, add_conversation_context and get_message_by_id return
\* to an owner is what they return when the store holds that owner's records
\* only, and every message or conversation returned is the owner's.
C15_OwnerScoped ==
  /\ spc = "responded"
       => /\ OwnedResults(results, q.user) /\ OwnedResults(fts, q.user)
          /\ q.mode = "fts" => fts \in FtsOutcomes(q, OwnConvs(q.user), q.limit, q.offset)
          /\ q.mode = "hybrid" => fts \in FtsOutcomes(q, OwnConvs(q.user), q.limit * 2, 0)
  /\ spc = "listed"
       => \A k \in 1..Len(ret[1]) : convs[ret[1][k].id].user_id = arg[1].user
  /\ (spc = "got" /\ ret # NULL)
       => /\ msgs[ret[1].id].user_id = arg[1].user
          /\ ret[1].id = arg[1].message_id

\* C16: a search in mode "vector" answers with an empty result list (total 0),
\* whatever the query, the filters, the limit and the offset, and whatever
\* the store holds; it never fails.
C16_VectorSearchEmpty ==
  (spc = "responded" /\ q.mode = "vector") => results = <<>> /\ vec = <<>>

\* a vector search has answered over a store with a message that matches the
\* query
C16_Witness ==
  /\ spc = "responded" /\ q.mode = "vector" /\ q.include_context
  /\ q.provider = "chatgpt" /\ q.role = "user"
  /\ Matching(q.user, q.query) # {}
  /\ results = <<>>

\* a file whose top level is neither a list nor an object with a
\* conversations list has just been read
OtherShapeRead ==
  /\ last \in {"open", "raise_open"}
  /\ file.k \in {"scalar", "nokey", "badconvs"}
\* the files read before the current one that failed: each of them has added
\* one entry to stats.errors
FailedBefore == {i \in 1..Len(flog) - 1 : flog[i].failed # "no"}

\* C17: a JSON file whose top level is a string, a number, an object without
\* conversations, or an object whose conversations is null or a number,
\* yields zero conversations and adds nothing to stats.errors.
C17_OtherShapeIsNoError ==
  OtherShapeRead
    => /\ ConversationsIn(file) = 0
       /\ flog[Len(flog)].failed = "no"
       /\ Len(stats.errors) = Cardinality(FailedBefore)

\* the messages list of the conversation object is a non-empty list
HasMessagesList(h) == h.messages.k = "list" /\ h.messages.n > 0
\* the nodes of the mapping that carry a message object
MessageNodes(h) ==
  IF h.mapping.k = "dict"
  THEN {i \in 1..Len(h.mapping.nodes) : h.mapping.nodes[i] = "msg"}
  ELSE {}
\* the loop over the messages of a chatgpt conversation has run to its end
ChatgptConversationOver == last = "end" /\ ~job.is_claude

RECURSIVE JoinedBySpaces(_)
\* the strings one after the other with one space between two neighbours
JoinedBySpaces(strs) ==
  IF strs = <<>> THEN <<>>
  ELSE IF Len(strs) = 1 THEN strs[1]
  ELSE JoinedBySpaces(SubSeq(strs, 1, Len(strs) - 1)) \o <<" ">> \o strs[Len(strs)]
\* the items of a list, stringified
Stringified(l) == [i \in 1..Len(l.items) |-> PyStr(l.items[i])]
\* the message object has a content member only
ContentOnly(m) == m.text = Absent /\ m.parts = Absent

\* C19: _extract_message_content maps {"parts": ["a","b"]} to "a b" (the
\* parts joined with single spaces), the string "hello" to "hello",
\* {"text": "x"} to "x" and the list [1, "two"] to "1 two" (the items
\* stringified and joined with spaces); content "" or null gives the empty
\* text, with which the message is dropped.
C19_ExtractMessageContent ==
  ret # NULL =>
    LET m == arg[1]
        c == arg[1].content
        x == ret[1]
    IN /\ c = ContentDict(List(<<Str(<<"a">>), Str(<<"b">>)>>), Absent, FALSE)
            => x = Extracted(<<"a", " ", "b">>)
       /\ c = Str(<<"h", "e", "l", "l", "o">>) => x = Extracted(<<"h", "e", "l", "l", "o">>)
       /\ c = ContentDict(Absent, Str(<<"x">>), FALSE) => x = Extracted(<<"x">>)
       /\ c = List(<<Num(1), Str(<<"t", "w", "o">>)>>)
            => x = Extracted(<<"1", " ", "t", "w", "o">>)
       /\ (c \in {Blank, JNull} /\ ContentOnly(m)) => x = Extracted(<<>>) /\ Skipped(x.s)
       /\ (c.k = "list" /\ c.items # <<>>) => x = Extracted(JoinedBySpaces(Stringified(c)))
       /\ (c.k = "cdict" /\ c.parts.k = "list")
            => x = Extracted(JoinedBySpaces(Stringified(c.parts)))
       /\ (c.k = "str" /\ c.s # <<>>) => x = Extracted(c.s)

\* the parts "a" and "b" have been joined to "a b"
C19_Witness ==
  /\ arg = Val(Msg(ContentDict(List(<<Str(<<"a">>), Str(<<"b">>)>>), Absent, FALSE)))
  /\ ret = Val(Extracted(<<"a", " ", "b">>))

\* the message object read last has been stored
MessageStored == last = "msg" /\ job.db /\ ~job.is_claude /\ msgs # <<>>
\* its create_time is a string that is no date
Unparseable(m) == RawCreateTime(m).k = "str"

\* C20: a message whose create_time is an epoch number or an ISO string
\* ending in "Z" is stored with the instant it denotes, the two forms of one
\* instant giving equal timestamp values; a timestamp that cannot be parsed
\* leaves timestamp_value null, the message being stored and no error
\* recorded.
C20_SameInstantSameTimestamp ==
  /\ (last \in {"msg", "raise_compare"} /\ job.db /\ ~job.is_claude
        /\ RawCreateTime(seen[Len(seen)]).k \in {"num", "iso"})
       => /\ MessageStored
          /\ msgs[Len(msgs)].timestamp_value # NULL
          /\ msgs[Len(msgs)].timestamp_value[1].inst
               = ParseTimestamp(seen[Len(seen)])[1].inst
  /\ \A k, l \in 1..Len(msgs) :
       (/\ msgs[k].timestamp_value # NULL /\ msgs[l].timestamp_value # NULL
        /\ msgs[k].timestamp_value[1].inst = msgs[l].timestamp_value[1].inst)
         => msgs[k].timestamp_value = msgs[l].timestamp_value
  /\ (last \in {"msg", "raise_compare"} /\ job.db /\ ~job.is_claude
        /\ Unparseable(seen[Len(seen)]))
       => /\ MessageStored
          /\ msgs[Len(msgs)].timestamp_value = NULL
          /\ stats.errors = pre.stats.errors

\* C21: a failure of log_search, on add or on commit, is swallowed: the step
\* that writes the usage log leaves the status and the body of the response,
\* computed before it, as they were, whether it succeeds or fails.
C21_LogFailureSwallowed ==
  [][slog' # slog
       => /\ spc = "responded" /\ spc' = "responded"
          /\ results' = results /\ q' = q /\ fts' = fts /\ vec' = vec]_vars

\* the commit of the usage log has failed after a search that found something
C21_Witness ==
  /\ slog.outcome = "commit_failed" /\ slog.rows = 0
  /\ spc = "responded" /\ results # <<>>

\* the rows of table s are still in table t, none with a lower aggregate
NotLowered(s, t) ==
  \A i \in 1..Len(s) :
    /\ i <= Len(t)
    /\ t[i].message_count >= s[i].message_count
    /\ t[i].word_count >= s[i].word_count

\* C23: across any sequence of ingestion passes the message_count and the
\* word_count of a Conversation never decrease: no step of a call lowers
\* either aggregate of a row in the session's view or removes a row, and no
\* commit does so in the committed table.
C23_AggregatesNeverDecrease ==
  [][/\ calls' = calls => NotLowered(convs, convs')
     /\ NotLowered(committed.convs, committed'.convs)]_vars

\* a second pass over a conversation that already counted a message has ended
\* and added to its aggregates
C23_Witness ==
  /\ ExistingConversationOver
  /\ pre.convs[conv.row].message_count > 0
  /\ convs[conv.row].message_count > pre.convs[conv.row].message_count
  /\ convs[conv.row].word_count > pre.convs[conv.row].word_count

\* no message of the pass carried a timestamp that could be parsed
NoTimestampParsed ==
  \A k \in 1..Len(seen) : IsDict(seen[k]) => ParseTimestamp(seen[k]) = NULL

\* C24: a pass over an existing conversation in which no message timestamp was
\* parsed leaves the first_message_date and the last_message_date of its row
\* as they were before the pass.
C24_NoTimestampKeepsDates ==
  (ExistingConversationOver /\ NoTimestampParsed)
    => /\ convs[conv.row].first_message_date = pre.convs[conv.row].first_message_date
       /\ convs[conv.row].last_message_date = pre.convs[conv.row].last_message_date

\* a message with an unparseable timestamp was stored under a conversation
\* whose row carried both dates, and the pass has ended
C24_Witness ==
  /\ ExistingConversationOver /\ NoTimestampParsed
  /\ Len(seen) > 0 /\ Len(msgs) > pre.msgs
  /\ pre.convs[conv.row].first_message_date = Val(Aware(1))
  /\ pre.convs[conv.row].last_message_date = Val(Aware(2))

\* the files of the export read to their end without an error
FilesWithoutError == {flog[k].name : k \in {i \in 1..Len(flog) : flog[i].failed = "no"}}
Listed(s) == {s[k] : k \in 1..Len(s)}

\* C25: when an export has been processed, stats.files_processed lists every
\* JSON file that was processed without error and no file that failed,
\* whether the export was a single .json file, an archive or a directory.
C25_FilesProcessedListsGoodFiles ==
  pc = "done" => Listed(stats.files_processed) = FilesWithoutError

\* the committed Message rows that reference the i-th committed Conversation
MessagesOf(i) ==
  {k \in 1..Len(committed.msgs) : committed.msgs[k].conversation_id = i}

RECURSIVE SumWords(_)
SumWords(S) ==
  IF S = {} THEN 0
  ELSE LET k == CHOOSE x \in S : TRUE
       IN committed.msgs[k].word_count + SumWords(S \ {k})

\* C26: in every committed state of the store reached through the chatgpt
\* upload endpoint, also after an upload that failed partway, the
\* message_count of each Conversation is the number of Message rows that
\* reference it and its word_count is the sum of their word_count.
C26_AggregatesMatchMessages ==
  (job.via = "endpoint" /\ ~job.is_claude)
    => \A i \in 1..Len(committed.convs) :
         /\ committed.convs[i].message_count = Cardinality(MessagesOf(i))
         /\ committed.convs[i].word_count = SumWords(MessagesOf(i))

\* the messages of a conversation object carry an epoch number and an ISO
\* string with an offset or Z
BothFormats(ms) ==
  /\ \E k \in 1..Len(ms) : ms[k].create_time.k = "num"
  /\ \E k \in 1..Len(ms) : ms[k].create_time.k = "iso"
\* the instants the timestamps of the messages denote
InstantsIn(ms) ==
  {ms[k].create_time.n : k \in {i \in 1..Len(ms) : ms[i].create_time.k = "num"}}
  \cup {ms[k].create_time.inst : k \in {i \in 1..Len(ms) : ms[i].create_time.k = "iso"}}

\* C28: a chatgpt conversation whose messages carry timestamps in both
\* formats, epoch numbers and ISO strings with an offset or Z, is ingested
\* without error: every message with content is stored and the first and
\* last timestamps of the pass are taken over all of them.
C28_BothFormatsIngested ==
  (pc = "done" /\ Len(export[1].convs) = 1 /\ BothFormats(export[1].convs[1].msgs))
    => /\ stats.errors = <<>>
       /\ Len(msgs) = Len(export[1].convs[1].msgs)
       /\ InstantOf(conv.first_dt) = {MinOf(InstantsIn(export[1].convs[1].msgs))}
       /\ InstantOf(conv.last_dt) = {MaxOf(InstantsIn(export[1].convs[1].msgs))}

\* the conversation object the processor last took up carries the id of the
\* duplicated rows and the upload is by their owner
DuplicatedTaken ==
  /\ IsDict(hdr) /\ Truthy(ConvExternalId(hdr))
  /\ ExternalIdStr(ConvExternalId(hdr)) = "c1"
  /\ job.user = "u1" /\ ~job.is_claude

\* C29: once two Conversation rows with the same owner, provider "chatgpt"
\* and external id exist, every later ingestion by that owner of an export
\* containing that id fails at the lookup: an error is recorded in
\* stats.errors for the file, no row's aggregates are updated and no message
\* stored for that conversation, and the conversations that follow it in the
\* file are not processed.
C29_DuplicateFailsEveryIngestion ==
  DuplicatedTaken
    => /\ flog[Len(flog)].failed = "conv"
       /\ pc \in {"export", "done", "returned"}
       /\ Len(stats.errors) = Len(pre.stats.errors) + 1
       /\ stats.errors[Len(stats.errors)].exc = "MultipleResultsFound"
       /\ HandlesPerFile(job.form) => stats.errors[Len(stats.errors)] = FileError(1, "MultipleResultsFound")
       /\ convs = pre.convs
       /\ Len(msgs) = pre.msgs
       /\ stats.conversations_processed = pre.stats.conversations_processed
       /\ flog[Len(flog)].handled = ci /\ ci < flog[Len(flog)].n

\* the second upload of an export has failed at the lookup of c1 with a
\* conversation after it in the file left unprocessed
C29_Witness ==
  /\ DuplicatedTaken /\ last = "raise_lookup"
  /\ calls = 2
  /\ ci + 1 < Len(export[1].convs)
  /\ Len(stats.errors) = 1

\* C22: an upload whose filename ends in neither .json nor .zip is rejected as
\* a validation failure before any processing: no FileUpload record is
\* created, nothing is ingested, and the caller receives status 400 with the
\* unsupported-type message, not a processing failure.
C22_UnsupportedTypeIs400 ==
  last = "rejected"
    => /\ upload = NULL
       /\ convs = committed.convs /\ msgs = committed.msgs /\ flog = <<>>
       /\ stats = NoStats
       /\ ret = Val(UnsupportedType)

\* the FileUpload record is committed with status "processing"
UploadProcessing == upload # NULL /\ upload[1].status = "processing"
\* the record has a final status and completed_at is set
UploadFinished ==
  /\ upload # NULL
  /\ upload[1].status \in {"completed", "failed"}
  /\ upload[1].completed

\* C27: every FileUpload record committed with status "processing" eventually
\* has status "completed" or "failed" with completed_at set, whatever happens
\* while the file is saved and processed; the final status is "completed"
\* exactly when stats has no errors, and the record never returns to
\* "processing".
C27_UploadReachesFinalStatus ==
  /\ UploadProcessing ~> UploadFinished
  /\ [](UploadFinished => (upload[1].status = "completed" <=> stats.errors = <<>>))
  /\ [][UploadFinished => UploadFinished']_vars

\* the messages the upload stored that match the query of the search
UploadedMatches == Matching(who.upload, q.query)

\* C30: in every reachable state of the users table the user under which the
\* upload endpoints ingest is the user whose records the search endpoints
\* query, so a search made after an upload by the same caller finds the
\* uploaded messages that match it.
C30_UploadVisibleToSearch ==
  /\ (who.upload # "" /\ who.search # "") => who.upload = who.search
  /\ (spc = "responded" /\ pc = "returned" /\ last = "return")
       => UploadedMatches \subseteq Ids(results)

====
